---- MODULE Spec2Model ----
(***************************************************************************)
(* cbuf.js: the binary codec of src/src/serde.ts (serializedMessageSize,   *)
(* serializeMessage, deserializeMessage) over schema maps as parse() of    *)
(* src/src/parse.ts produces them and lookupMsgdef resolves them.          *)
(*                                                                         *)
(* Representation.                                                         *)
(*  - A name "ns1::complex" is the sequence <<"ns1", "complex">> of its    *)
(*    identifiers; join("::") is concatenation, includes("::") is Len > 1. *)
(*  - A JavaScript value is a record [t |-> typeof-like tag, v |-> ...].   *)
(*  - A JavaScript string is the sequence of its UTF-16 code units.        *)
(*  - An ArrayBuffer, and a typed array, is [data, len]: len elements of   *)
(*    which those after data are zero (an ArrayBuffer is born zeroed), so  *)
(*    that a 128 MiB buffer is a value the checker can hold.               *)
(*  - A 64-bit hash is the sequence of its 8 little-endian bytes.          *)
(***************************************************************************)
EXTENDS Integers, Sequences, FiniteSets, TLC

\* ------------------------------------------------------------------ bytes

Pow2(n) == 2 ^ n

Min(a, b) == IF a < b THEN a ELSE b

Max(a, b) == IF a < b THEN b ELSE a

ZeroSeq(n) == [i \in 1..n |-> 0]

\* Byte k (0 = least significant) of the two's complement form of v.
RECURSIVE ByteOf(_, _)
ByteOf(v, k) ==
  IF v >= 0
    THEN IF k < 4 THEN (v \div (256 ^ k)) % 256 ELSE 0
    ELSE 255 - ByteOf(-v - 1, k)

\* DataView.setUint8/16/32, setInt8/16/32, setBig(U)Int64 (littleEndian = true):
\* the low w bytes of the value modulo 2^(8w).
IntLE(v, w) == [i \in 1..w |-> ByteOf(v, i - 1)]

\* The unsigned value of little-endian bytes (at most 31 bits of it are used).
RECURSIVE UnsignedLE(_)
UnsignedLE(b) ==
  IF b = <<>> THEN 0 ELSE b[1] + 256 * UnsignedLE(Tail(b))

\* DataView.getInt8/16/32, getBigInt64.
SignedLE(b) ==
  IF b[Len(b)] >= 128
    THEN -UnsignedLE([i \in 1..Len(b) |-> 255 - b[i]]) - 1
    ELSE UnsignedLE(b)

\* ----------------------------------------------------------------- floats
\* A JavaScript number is modelled exactly when it is an integer of magnitude
\* below 2^21; setFloat32/setFloat64 write its IEEE-754 bits, little-endian.

RECURSIVE FloorLog2(_)
FloorLog2(n) == IF n < 2 THEN 0 ELSE 1 + FloorLog2(n \div 2)

Abs(n) == IF n < 0 THEN -n ELSE n

\* DataView.setFloat64(offset, n, true)
F64LE(n) ==
  IF n = 0 THEN ZeroSeq(8)
  ELSE LET a == Abs(n)
           e == FloorLog2(a)
           E == 1023 + e
           m20 == (a - Pow2(e)) * Pow2(20 - e)
           s == IF n < 0 THEN 128 ELSE 0
       IN <<0, 0, 0, 0, m20 % 256, (m20 \div 256) % 256,
            (E % 16) * 16 + (m20 \div 65536), s + (E \div 16)>>

\* DataView.setFloat32(offset, n, true)
F32LE(n) ==
  IF n = 0 THEN ZeroSeq(4)
  ELSE LET a == Abs(n)
           e == FloorLog2(a)
           E == 127 + e
           m23 == (a - Pow2(e)) * Pow2(23 - e)
           s == IF n < 0 THEN 128 ELSE 0
       IN <<m23 % 256, (m23 \div 256) % 256,
            (E % 2) * 128 + (m23 \div 65536), s + (E \div 2)>>

\* DataView.getFloat64(offset, true): the integer the bits denote, as a
\* "number"; any other double is kept as its bits under the tag "float".
GetFloat64(b) ==
  LET s == b[8] \div 128
      E == (b[8] % 128) * 16 + (b[7] \div 16)
      e == E - 1023
      m20 == (b[7] % 16) * 65536 + b[6] * 256 + b[5]
  IN IF b = ZeroSeq(8) THEN [t |-> "number", v |-> 0]
     ELSE IF /\ b[1] = 0 /\ b[2] = 0 /\ b[3] = 0 /\ b[4] = 0
             /\ e >= 0 /\ e <= 20
             /\ m20 % Pow2(20 - e) = 0
       THEN LET a == Pow2(e) + (m20 \div Pow2(20 - e))
            IN [t |-> "number", v |-> IF s = 1 THEN -a ELSE a]
       ELSE [t |-> "float", v |-> b]

\* DataView.getFloat32(offset, true)
GetFloat32(b) ==
  LET s == b[4] \div 128
      E == (b[4] % 128) * 2 + (b[3] \div 128)
      e == E - 127
      m23 == (b[3] % 128) * 65536 + b[2] * 256 + b[1]
  IN IF b = ZeroSeq(4) THEN [t |-> "number", v |-> 0]
     ELSE IF e >= 0 /\ e <= 20 /\ m23 % Pow2(23 - e) = 0
       THEN LET a == Pow2(e) + (m23 \div Pow2(23 - e))
            IN [t |-> "number", v |-> IF s = 1 THEN -a ELSE a]
       ELSE [t |-> "float", v |-> b]

\* ------------------------------------------------------------------ UTF-8

\* textEncoder.encode(value): the UTF-8 bytes of a sequence of UTF-16 code
\* units (a surrogate pair is one 4-byte sequence, a lone surrogate U+FFFD).
RECURSIVE Utf8Encode(_)
Utf8Encode(s) ==
  IF s = <<>> THEN <<>>
  ELSE LET c == s[1] IN
    IF c < 128 THEN <<c>> \o Utf8Encode(Tail(s))
    ELSE IF c < 2048
      THEN <<192 + (c \div 64), 128 + (c % 64)>> \o Utf8Encode(Tail(s))
    ELSE IF /\ c >= 55296 /\ c <= 56319 /\ Len(s) >= 2
            /\ s[2] >= 56320 /\ s[2] <= 57343
      THEN LET cp == 65536 + (c - 55296) * 1024 + (s[2] - 56320)
           IN <<240 + (cp \div 262144), 128 + ((cp \div 4096) % 64),
                128 + ((cp \div 64) % 64), 128 + (cp % 64)>>
              \o Utf8Encode(Tail(Tail(s)))
    ELSE IF c >= 55296 /\ c <= 57343
      THEN <<239, 191, 189>> \o Utf8Encode(Tail(s))
    ELSE <<224 + (c \div 4096), 128 + ((c \div 64) % 64), 128 + (c % 64)>>
           \o Utf8Encode(Tail(s))

\* The UTF-16 code units of one decoded code point.
CodeUnits(cp) ==
  IF cp < 65536 THEN <<cp>>
  ELSE <<55296 + ((cp - 65536) \div 1024), 56320 + ((cp - 65536) % 1024)>>

\* The UTF-8 decoder of TextDecoder (not fatal): b from index i on, with
\* `needed` continuation bytes outstanding, each within lower..upper, cp the
\* code point so far. A malformed sequence yields U+FFFD and the offending
\* byte is read again.
RECURSIVE Utf8Run(_, _, _, _, _, _)
Utf8Run(b, i, needed, lower, upper, cp) ==
  IF i > Len(b) THEN (IF needed > 0 THEN <<65533>> ELSE <<>>)
  ELSE LET x == b[i] IN
    IF needed = 0 THEN
      IF x < 128 THEN <<x>> \o Utf8Run(b, i + 1, 0, 128, 191, 0)
      ELSE IF x >= 194 /\ x <= 223 THEN Utf8Run(b, i + 1, 1, 128, 191, x % 32)
      ELSE IF x >= 224 /\ x <= 239
        THEN Utf8Run(b, i + 1, 2, IF x = 224 THEN 160 ELSE 128,
                     IF x = 237 THEN 159 ELSE 191, x % 16)
      ELSE IF x >= 240 /\ x <= 244
        THEN Utf8Run(b, i + 1, 3, IF x = 240 THEN 144 ELSE 128,
                     IF x = 244 THEN 143 ELSE 191, x % 8)
      ELSE <<65533>> \o Utf8Run(b, i + 1, 0, 128, 191, 0)
    ELSE IF x < lower \/ x > upper
      THEN <<65533>> \o Utf8Run(b, i, 0, 128, 191, 0)
    ELSE IF needed = 1
      THEN CodeUnits(cp * 64 + (x % 64)) \o Utf8Run(b, i + 1, 0, 128, 191, 0)
    ELSE Utf8Run(b, i + 1, needed - 1, 128, 191, cp * 64 + (x % 64))

\* textDecoder.decode(bytes): a leading byte order mark is dropped.
Utf8Decode(b) ==
  IF Len(b) >= 3 /\ b[1] = 239 /\ b[2] = 187 /\ b[3] = 191
    THEN Utf8Run(b, 4, 0, 128, 191, 0)
    ELSE Utf8Run(b, 1, 0, 128, 191, 0)

\* The whole text, not cut at a NUL
WholeText(s) == s

\* str.split("\0").shift(): the text before the first NUL.
RECURSIVE BeforeNul(_)
BeforeNul(s) ==
  IF s = <<>> \/ s[1] = 0 THEN <<>> ELSE <<s[1]>> \o BeforeNul(Tail(s))

\* ----------------------------------------------------- JavaScript values

Undef == [t |-> "undefined", v |-> 0]

Num(n) == [t |-> "number", v |-> n]

Big(n) == [t |-> "bigint", v |-> n]

Bool(b) == [t |-> "boolean", v |-> b]

Str(s) == [t |-> "string", v |-> s]

Arr(s) == [t |-> "array", v |-> s]

\* fields is a record: field name |-> value
Obj(fields) == [t |-> "object", v |-> fields]

\* new <ctor>(len) with the leading elements set to data (the rest are 0):
\* data holds integers, and values (Num or "float") for the float arrays
Typed(ctor, data, len) ==
  [t |-> "typed", v |-> [ctor |-> ctor, data |-> data, len |-> len]]

\* message[field.name]
Get(message, name) ==
  IF message.t = "object" /\ name \in DOMAIN message.v
    THEN message.v[name] ELSE Undef

\* a ?? b
Coalesce(a, b) == IF a.t = "undefined" THEN b ELSE a

\* isArray(value): Array.isArray(value) or a typed array
isArray(value) == value.t \in {"array", "typed"}

\* arrayValue.length
ArrLen(a) == IF a.t = "array" THEN Len(a.v) ELSE a.v.len

\* arrayValue[i], i counted from 0
ElemAt(a, i) ==
  IF i >= ArrLen(a) THEN Undef
  ELSE IF a.t = "array" THEN a.v[i + 1]
  ELSE IF a.v.ctor \in {"Float32Array", "Float64Array"}
    THEN (IF i < Len(a.v.data) THEN a.v.data[i + 1] ELSE Num(0))
  ELSE LET x == IF i < Len(a.v.data) THEN a.v.data[i + 1] ELSE 0
       IN IF a.v.ctor \in {"BigInt64Array", "BigUint64Array"}
            THEN Big(x) ELSE Num(x)

getNumber(value) ==
  IF value.t = "number" THEN value.v
  ELSE IF value.t = "bigint" THEN value.v
  ELSE IF value.t = "boolean" THEN (IF value.v THEN 1 ELSE 0)
  ELSE 0

getBigInt(value) ==
  IF value.t = "bigint" THEN value.v
  ELSE IF value.t = "number" THEN value.v
  ELSE IF value.t = "boolean" THEN (IF value.v THEN 1 ELSE 0)
  ELSE 0

\* ----------------------------------------------------------------- schema
\* A MessageDefinitionField. type is a name (<<"bool">>, <<"ns1", "nested">>);
\* arrayLength and upperBound are -1 when the property is undefined.

Field(type, name) ==
  [name |-> name, type |-> type, isComplex |-> FALSE, isArray |-> FALSE,
   arrayLength |-> -1, upperBound |-> -1, defaultValue |-> Undef]

Complex(f) == [f EXCEPT !.isComplex = TRUE]

Array(f) == [f EXCEPT !.isArray = TRUE]

FixedArray(f, n) == [f EXCEPT !.isArray = TRUE, !.arrayLength = n]

ShortString(name) == [Field(<<"string">>, name) EXCEPT !.upperBound = 16]

Default(f, value) == [f EXCEPT !.defaultValue = value]

Struct(name, namespaces, hashValue, isNakedStruct, definitions) ==
  [name |-> name, namespaces |-> namespaces, hashValue |-> hashValue,
   isEnum |-> FALSE, isEnumClass |-> FALSE, isNakedStruct |-> isNakedStruct,
   definitions |-> definitions]

\* A built-in definition without its last field
MetadataWithoutMeta ==
  Struct(<<"cbufmsg", "metadata">>, <<"cbufmsg">>,
         <<198, 114, 171, 68, 213, 56, 103, 190>>, FALSE,
         <<Field(<<"uint64">>, "msg_hash"), Field(<<"string">>, "msg_name")>>)

METADATA_DEFINITION ==
  Struct(<<"cbufmsg", "metadata">>, <<"cbufmsg">>,
         <<198, 114, 171, 68, 213, 56, 103, 190>>, FALSE,
         <<Field(<<"uint64">>, "msg_hash"), Field(<<"string">>, "msg_name"),
           Field(<<"string">>, "msg_meta")>>)

\* The result of parse() for the schema text
\*   struct a { string b; bool c; }
\*   namespace ns1 {
\*     struct nested @naked { string text; }
\*     struct complex { nested inner; short_string b; s64 g; u16 v[]; }
\*   }
\*   namespace ns2 { struct outer { bool a; ns1::complex b; int c = 42; } }
\*   struct s { short_string b; }
\*   struct c { double d; s g[2]; }
\*   struct d { string n[1]; }
\*   struct e { ns1::nested q[]; s p[]; }
\*   struct blob { u8 data[]; }
\*   struct f { bool x[]; u16 w[]; }
\* each hashValue being computeHashValue of the definition, as 8 bytes.
ParsedSchema ==
  << Struct(<<"a">>, <<>>, <<198, 221, 126, 127, 234, 161, 145, 79>>, FALSE,
            <<Field(<<"string">>, "b"), Field(<<"bool">>, "c")>>),
     Struct(<<"ns1", "nested">>, <<"ns1">>,
            <<221, 198, 102, 20, 127, 209, 197, 18>>, TRUE,
            <<Field(<<"string">>, "text")>>),
     Struct(<<"ns1", "complex">>, <<"ns1">>,
            <<2, 47, 98, 103, 104, 72, 215, 22>>, FALSE,
            <<Complex(Field(<<"ns1", "nested">>, "inner")), ShortString("b"),
              Field(<<"int64">>, "g"), Array(Field(<<"uint16">>, "v"))>>),
     Struct(<<"ns2", "outer">>, <<"ns2">>,
            <<213, 109, 9, 81, 132, 12, 250, 8>>, FALSE,
            <<Field(<<"bool">>, "a"),
              Complex(Field(<<"ns1", "complex">>, "b")),
              Default(Field(<<"int32">>, "c"), Num(42))>>),
     Struct(<<"s">>, <<>>, <<196, 49, 66, 223, 13, 61, 87, 31>>, FALSE,
            <<ShortString("b")>>),
     Struct(<<"c">>, <<>>, <<62, 74, 252, 183, 104, 181, 103, 0>>, FALSE,
            <<Field(<<"float64">>, "d"),
              FixedArray(Complex(Field(<<"s">>, "g")), 2)>>),
     Struct(<<"d">>, <<>>, <<138, 233, 254, 127, 227, 112, 248, 195>>, FALSE,
            <<FixedArray(Field(<<"string">>, "n"), 1)>>),
     Struct(<<"e">>, <<>>, <<34, 128, 141, 170, 219, 249, 203, 126>>, FALSE,
            <<Array(Complex(Field(<<"ns1", "nested">>, "q"))),
              Array(Complex(Field(<<"s">>, "p")))>>),
     Struct(<<"blob">>, <<>>, <<5, 239, 152, 67, 75, 248, 10, 7>>, FALSE,
            <<Array(Field(<<"uint8">>, "data"))>>),
     Struct(<<"f">>, <<>>, <<137, 121, 209, 152, 149, 232, 16, 245>>, FALSE,
            <<Array(Field(<<"bool">>, "x")), Array(Field(<<"uint16">>, "w"))>>) >>

\* createSchemaMaps(schemas): [0] of the result, name -> definition (Map.set
\* overwrites an earlier entry under the same key: the last one stays).
NameMap(schemas) ==
  [n \in {schemas[i].name : i \in DOMAIN schemas} |->
     schemas[CHOOSE i \in DOMAIN schemas :
               /\ schemas[i].name = n
               /\ \A j \in DOMAIN schemas : schemas[j].name = n => j <= i]]

\* createSchemaMaps(schemas): [1] of the result, hash -> definition, the
\* enums left out.
HashMap(schemas) ==
  LET structs == {i \in DOMAIN schemas : ~schemas[i].isEnum}
  IN [h \in {schemas[i].hashValue : i \in structs} |->
        schemas[CHOOSE i \in structs :
                  /\ schemas[i].hashValue = h
                  /\ \A j \in structs : schemas[j].hashValue = h => j <= i]]

\* lookupMsgdef's loop from index i down to 0: the first fully qualified name
\* that is a key of the map, <<>> when there is none.
RECURSIVE LookupFrom(_, _, _, _)
LookupFrom(map, namespaces, typeName, i) ==
  LET fqName == SubSeq(namespaces, 1, i) \o typeName
  IN IF fqName \in DOMAIN map THEN fqName
     ELSE IF i = 0 THEN <<>>
     ELSE LookupFrom(map, namespaces, typeName, i - 1)

\* lookupMsgdef(nameToSchema, namespaces, typeName): the key of the definition
\* it returns, <<>> when it throws.
lookupMsgdef(map, namespaces, typeName) ==
  IF Len(typeName) > 1
    THEN (IF typeName \in DOMAIN map THEN typeName ELSE <<>>)
    ELSE LookupFrom(map, namespaces, typeName, Len(namespaces))

\* ------------------------------------------------------------------ hash
\* A text is the sequence of its UTF-16 code units. The identifiers of the
\* schemas, as they are spelled:
Spelling ==
  [a |-> <<97>>, b |-> <<98>>, c |-> <<99>>, d |-> <<100>>, e |-> <<101>>,
   f |-> <<102>>, g |-> <<103>>, n |-> <<110>>, m |-> <<109>>, p |-> <<112>>,
   s |-> <<115>>, v |-> <<118>>, w |-> <<119>>, x |-> <<120>>, y |-> <<121>>,
   A |-> <<65>>, B |-> <<66>>, C |-> <<67>>, E |-> <<69>>, G |-> <<71>>,
   K |-> <<75>>,
   Q |-> <<81>>, T |-> <<84>>, U |-> <<85>>, V |-> <<86>>, W |-> <<87>>,
   X |-> <<88>>, Y |-> <<89>>, Z |-> <<90>>,
   ns1 |-> <<110, 115, 49>>,
   ns2 |-> <<110, 115, 50>>,
   nested |-> <<110, 101, 115, 116, 101, 100>>,
   complex |-> <<99, 111, 109, 112, 108, 101, 120>>,
   outer |-> <<111, 117, 116, 101, 114>>,
   inner |-> <<105, 110, 110, 101, 114>>,
   text |-> <<116, 101, 120, 116>>,
   blob |-> <<98, 108, 111, 98>>,
   data |-> <<100, 97, 116, 97>>,
   q |-> <<113>>]

\* name.join("::") of a name kept as the sequence of its identifiers
RECURSIVE Joined(_)
Joined(name) ==
  IF name = <<>> THEN <<>>
  ELSE IF Len(name) = 1 THEN Spelling[name[1]]
  ELSE Spelling[name[1]] \o <<58, 58>> \o Joined(Tail(name))

\* `${n}` of a whole number that is not negative
RECURSIVE NumberToString(_)
NumberToString(n) ==
  IF n < 10 THEN <<48 + n>> ELSE NumberToString(n \div 10) \o <<48 + (n % 10)>>

\* A bigint that is not negative is the sequence of its bytes, the least
\* significant first, of any length.

\* a + b + carry
RECURSIVE BigAdd(_, _, _)
BigAdd(a, b, carry) ==
  IF a = <<>> /\ b = <<>> THEN (IF carry = 0 THEN <<>> ELSE <<carry>>)
  ELSE LET sum == (IF a = <<>> THEN 0 ELSE a[1]) + (IF b = <<>> THEN 0 ELSE b[1]) + carry
       IN <<sum % 256>> \o BigAdd(IF a = <<>> THEN a ELSE Tail(a),
                                  IF b = <<>> THEN b ELSE Tail(b), sum \div 256)

\* (a << 5n) + carry
RECURSIVE ShiftLeft5(_, _)
ShiftLeft5(a, carry) ==
  IF a = <<>> THEN (IF carry = 0 THEN <<>> ELSE <<carry>>)
  ELSE <<(a[1] * 32 + carry) % 256>> \o ShiftLeft5(Tail(a), (a[1] * 32 + carry) \div 256)

\* a & 0xffffffffn, padded to 8 bytes
Mask32(a) == [i \in 1..8 |-> IF i <= Len(a) /\ i <= 4 THEN a[i] ELSE 0]

\* a & mask, mask being 0xffffffffffffffffn: 8 bytes
Mask64(a) == [i \in 1..8 |-> IF i <= Len(a) THEN a[i] ELSE 0]

\* hashString, the body of its loop for the character of code c
HashStep(hash, c) ==
  Mask64(BigAdd(Mask64(BigAdd(ShiftLeft5(hash, 0), hash, 0)), <<c>>, 0))

\* hashString, its loop over the characters lo..hi of str in their order
\* (those of the first half of the range, then those of the second), hash
\* being the 8 bytes the mask left of it before character lo
RECURSIVE HashRange(_, _, _, _)
HashRange(str, lo, hi, hash) ==
  IF Len(hash) # 8 \/ lo > hi THEN hash
  ELSE IF lo = hi THEN HashStep(hash, str[lo])
  ELSE HashRange(str, ((lo + hi) \div 2) + 1, hi,
                 HashRange(str, lo, (lo + hi) \div 2, hash))

\* hashString(str): the hash as its 8 little-endian bytes
hashString(str) == HashRange(str, 1, Len(str), IntLE(5381, 8))

\* The quotient and the remainder of a bigint divided by 10, from byte k
\* down: r is the remainder and q the quotient of the bytes above k
RECURSIVE DivideBy10(_, _, _, _)
DivideBy10(a, k, r, q) ==
  IF k = 0 THEN [q |-> q, r |-> r]
  ELSE DivideBy10(a, k - 1, (r * 256 + a[k]) % 10, <<(r * 256 + a[k]) \div 10>> \o q)

\* The decimal digits of a bigint, none for 0
RECURSIVE Digits(_)
DigitsAfter(d) == Digits(d.q) \o <<48 + d.r>>

Digits(a) ==
  IF \A k \in DOMAIN a : a[k] = 0 THEN <<>>
  ELSE DigitsAfter(DivideBy10(a, Len(a), 0, <<>>))

\* `${hash}` of a bigint
BigIntToString(a) == IF Digits(a) = <<>> THEN <<48>> ELSE Digits(a)

\* elementTypeToStrC(type), <<>> when it throws
elementTypeToStrC(type) ==
  IF type = <<"uint8">> THEN <<117, 105, 110, 116, 56, 95, 116>>
  ELSE IF type = <<"uint16">> THEN <<117, 105, 110, 116, 49, 54, 95, 116>>
  ELSE IF type = <<"uint32">> THEN <<117, 105, 110, 116, 51, 50, 95, 116>>
  ELSE IF type = <<"uint64">> THEN <<117, 105, 110, 116, 54, 52, 95, 116>>
  ELSE IF type = <<"int8">> THEN <<105, 110, 116, 56, 95, 116>>
  ELSE IF type = <<"int16">> THEN <<105, 110, 116, 49, 54, 95, 116>>
  ELSE IF type = <<"int32">> THEN <<105, 110, 116, 51, 50, 95, 116>>
  ELSE IF type = <<"int64">> THEN <<105, 110, 116, 54, 52, 95, 116>>
  ELSE IF type = <<"float32">> THEN <<102, 108, 111, 97, 116>>
  ELSE IF type = <<"float64">> THEN <<100, 111, 117, 98, 108, 101>>
  ELSE IF type = <<"string">>
    THEN <<115, 116, 100, 58, 58, 115, 116, 114, 105, 110, 103>>
  ELSE IF type = <<"short_string">>
    THEN <<86, 83, 116, 114, 105, 110, 103, 60, 49, 53, 62>>
  ELSE IF type = <<"bool">> THEN <<98, 111, 111, 108>>
  ELSE <<>>

\* What computeHashValue returns or throws: text is what it joined in buf
HashOk(text) == [err |-> "", text |-> text, hashValue |-> hashString(text)]

HashFail(e) == [err |-> e, text |-> <<>>, hashValue |-> <<>>]

RECURSIVE computeHashValue(_, _, _, _)
RECURSIVE HashFields(_, _, _, _, _)

\* computeHashValue, what it pushes for an array field before the element
ArrayText(field) ==
  IF field.isArray
    THEN <<91>> \o NumberToString(IF field.arrayLength = -1 THEN 0 ELSE field.arrayLength)
         \o <<93, 32>>
    ELSE <<>>

\* A complex field pushed with a space before the newline
NestedTextSpaced(field, nested) ==
  IF nested.err # "" THEN nested
  ELSE [nested EXCEPT !.text = ArrayText(field) \o BigIntToString(nested.hashValue)
                                \o <<32>> \o Spelling[field.name] \o <<59, 32, 10>>]

\* computeHashValue, what it pushes for a complex field, nested being what
\* the nested call returned or threw
NestedText(field, nested) ==
  IF nested.err # "" THEN nested
  ELSE [nested EXCEPT !.text = ArrayText(field) \o BigIntToString(nested.hashValue)
                                \o <<32>> \o Spelling[field.name] \o <<59, 10>>]

\* A hash text in which a field with a default value ends in "=" and the
\* fields of a naked struct in "@"
FieldTextAnnotated(nameToSchema, msgdef, field, depth) ==
  IF field.isComplex
    THEN NestedText(field, computeHashValue(nameToSchema, msgdef.namespaces, field.type,
                                            depth + 1))
  ELSE IF elementTypeToStrC(field.type) = <<>> THEN HashFail("UnsupportedType")
  ELSE [HashFail("") EXCEPT !.text = ArrayText(field) \o elementTypeToStrC(field.type)
                                       \o <<32>> \o Spelling[field.name] \o <<59, 32, 10>>
                                       \o (IF field.defaultValue.t # "undefined"
                                             THEN <<61>> ELSE <<>>)
                                       \o (IF msgdef.isNakedStruct THEN <<64>> ELSE <<>>)]

\* computeHashValue, the body of its loop for one field
FieldText(nameToSchema, msgdef, field, depth) ==
  IF field.isComplex
    THEN NestedText(field, computeHashValue(nameToSchema, msgdef.namespaces, field.type,
                                            depth + 1))
  ELSE IF elementTypeToStrC(field.type) = <<>> THEN HashFail("UnsupportedType")
  ELSE [HashFail("") EXCEPT !.text = ArrayText(field) \o elementTypeToStrC(field.type)
                                       \o <<32>> \o Spelling[field.name] \o <<59, 32, 10>>]

\* computeHashValue, the rest of its loop after field i
ThenHashFields(nameToSchema, msgdef, i, depth, buf, pushed) ==
  IF pushed.err # "" THEN pushed
  ELSE HashFields(nameToSchema, msgdef, i + 1, depth, buf \o pushed.text)

\* computeHashValue, its loop from field i on
HashFields(nameToSchema, msgdef, i, depth, buf) ==
  IF i > Len(msgdef.definitions) THEN HashOk(buf)
  ELSE ThenHashFields(nameToSchema, msgdef, i, depth, buf,
                      FieldText(nameToSchema, msgdef, msgdef.definitions[i], depth))

\* computeHashValue of the definition lookupMsgdef returned under key
HashOf(nameToSchema, key, typeName, depth) ==
  IF key = <<>> THEN HashFail("UnknownType")
  ELSE IF depth >= Cardinality(DOMAIN nameToSchema) THEN HashFail("RangeError")
  ELSE HashFields(nameToSchema, nameToSchema[key], 1, depth,
                  <<115, 116, 114, 117, 99, 116, 32>> \o Joined(typeName) \o <<32, 10>>)

\* computeHashValue(nameToSchema, namespaces, typeName), depth calls deep.
\* Definitions that contain each other make it call itself without end: the
\* call stack overflows (RangeError) once more calls are open than there are
\* definitions.
computeHashValue(nameToSchema, namespaces, typeName, depth) ==
  HashOf(nameToSchema, lookupMsgdef(nameToSchema, namespaces, typeName), typeName, depth)

\* ----------------------------------------------------------------- parse
\* parse(messageDefinition) is modelled from the list of entities the grammar
\* of cbuf.ne returns for the text, parser.finish()[0]. A written type is
\* the sequence of its identifiers: <<"u16">>, <<"ns1", "nested">>.

\* BasicType of cbuf.ne: the type of each keyword
BasicType ==
  [string |-> "string", short_string |-> "short_string", bool |-> "bool",
   int |-> "int32", float |-> "float32", double |-> "float64",
   s8 |-> "int8", s16 |-> "int16", s32 |-> "int32", s64 |-> "int64",
   u8 |-> "uint8", u16 |-> "uint16", u32 |-> "uint32", u64 |-> "uint64",
   f32 |-> "float32", f64 |-> "float64",
   int8 |-> "int8", int16 |-> "int16", int32 |-> "int32", int64 |-> "int64",
   uint8 |-> "uint8", uint16 |-> "uint16", uint32 |-> "uint32", uint64 |-> "uint64",
   float32 |-> "float32", float64 |-> "float64",
   int8_t |-> "int8", int16_t |-> "int16", int32_t |-> "int32", int64_t |-> "int64",
   uint8_t |-> "uint8", uint16_t |-> "uint16", uint32_t |-> "uint32",
   uint64_t |-> "uint64"]

\* TypeName of cbuf.ne: a BasicType, or a ComplexType
TypeName(written) ==
  IF Len(written) = 1 /\ written[1] \in DOMAIN BasicType
    THEN [type |-> <<BasicType[written[1]]>>, isComplex |-> FALSE]
    ELSE [type |-> written, isComplex |-> TRUE]

\* Field of cbuf.ne without Array and Assignment (Array, FixedArray and
\* Default add them); arrayUpperBound is -1 when undefined
WrittenField(written, name) ==
  [name |-> name, type |-> TypeName(written).type,
   isComplex |-> TypeName(written).isComplex, isArray |-> FALSE,
   arrayLength |-> -1, arrayUpperBound |-> -1, upperBound |-> -1,
   defaultValue |-> Undef, isConstant |-> FALSE, value |-> Undef]

\* EnumValue of cbuf.ne: value is Undef without an EnumAssignment
EnumValue(name, value) ==
  [WrittenField(<<"uint32">>, name) EXCEPT !.isConstant = TRUE, !.value = value]

\* An IDENTIFIER as AssignmentRHS: the string of its name
Identifier(name) == Str(Spelling[name])

\* Namespace, Constant, Enum and Struct of cbuf.ne
Namespace(name, definitions) ==
  [entity |-> "namespace", name |-> name, definitions |-> definitions,
   type |-> <<>>, value |-> Undef, isEnumClass |-> FALSE, isNakedStruct |-> FALSE]

Constant(written, name, value) ==
  [entity |-> "constant", name |-> name, definitions |-> <<>>,
   type |-> TypeName(written).type, value |-> value, isEnumClass |-> FALSE,
   isNakedStruct |-> FALSE]

Enum(name, isEnumClass, definitions) ==
  [entity |-> "enum", name |-> name, definitions |-> definitions,
   type |-> <<>>, value |-> Undef, isEnumClass |-> isEnumClass,
   isNakedStruct |-> FALSE]

StructEntity(name, isNakedStruct, definitions) ==
  [entity |-> "struct", name |-> name, definitions |-> definitions,
   type |-> <<>>, value |-> Undef, isEnumClass |-> FALSE,
   isNakedStruct |-> isNakedStruct]

\* lookupEnum(enums, namespaces, typeName): the key of the enum it returns,
\* <<>> for undefined
lookupEnum(enums, namespaces, typeName) ==
  IF Len(typeName) > 1
    THEN (IF typeName \in DOMAIN enums THEN typeName ELSE <<>>)
    ELSE LookupFrom(enums, namespaces, typeName, Len(namespaces))

\* defaultValueTypeCheck(fieldName, typeName, element): TRUE unless it throws
defaultValueTypeCheck(typeName, element) ==
  IF typeName \in {<<"string">>, <<"short_string">>} THEN element.t = "string"
  ELSE IF typeName = <<"bool">> THEN element.t = "boolean"
  ELSE element.t = "number"

\* What parseEntities holds while it runs: the error thrown if any, the
\* entityNames, constants and enums it was given, and its results
ParseState(err, entityNames, constants, enums, results) ==
  [err |-> err, entityNames |-> entityNames, constants |-> constants,
   enums |-> enums, results |-> results]

Thrown(st, e) == [st EXCEPT !.err = e]

\* parseEntities, case "enum": the loop that sets a value for each enum
\* field, from field i on; out holds the fields done
RECURSIVE EnumValues(_, _, _, _)
EnumValues(definitions, i, nextValue, out) ==
  IF i > Len(definitions) THEN [err |-> "", definitions |-> out]
  ELSE IF definitions[i].value.t = "undefined"
    THEN EnumValues(definitions, i + 1, nextValue + 1,
                    Append(out, [definitions[i] EXCEPT !.value = Num(nextValue)]))
  ELSE IF definitions[i].value.t # "number"
    THEN [err |-> "InvalidEnumValue", definitions |-> out]
  ELSE EnumValues(definitions, i + 1, definitions[i].value.v + 1,
                  Append(out, definitions[i]))

\* parseEntities, case "enum" after the values are set
ParseEnum(st, namespaces, entity, valued) ==
  IF valued.err # "" THEN Thrown(st, valued.err)
  ELSE [st EXCEPT
          !.enums = (namespaces \o <<entity.name>> :> valued.definitions) @@ @,
          !.results = Append(@, [Struct(namespaces \o <<entity.name>>, namespaces,
                                        ZeroSeq(8), FALSE, valued.definitions)
                                   EXCEPT !.isEnum = TRUE,
                                          !.isEnumClass = entity.isEnumClass])]

\* parseEntities, case "struct": a field whose type resolves to the enum of
\* the given fields, rewritten as a uint32
EnumField(enumDefinitions, definition) ==
  IF definition.defaultValue.t \in {"undefined", "number"}
    THEN [err |-> "",
          definition |-> [definition EXCEPT !.type = <<"uint32">>, !.isComplex = FALSE]]
  ELSE IF \E j \in DOMAIN enumDefinitions :
            /\ definition.defaultValue.t = "string"
            /\ Spelling[enumDefinitions[j].name] = definition.defaultValue.v
    THEN [err |-> "",
          definition |->
            [definition EXCEPT
               !.type = <<"uint32">>, !.isComplex = FALSE,
               !.defaultValue =
                 enumDefinitions[CHOOSE j \in DOMAIN enumDefinitions :
                    /\ Spelling[enumDefinitions[j].name] = definition.defaultValue.v
                    /\ \A k \in 1..(j - 1) :
                         Spelling[enumDefinitions[k].name] # definition.defaultValue.v].value]]
  ELSE [err |-> "UnknownEnumValue", definition |-> definition]

\* parseEntities, case "struct": the body of the loop that rewrites
\* enum-typed fields, key being what lookupEnum returned
RewriteField(enums, namespaces, definition, key) ==
  IF ~definition.isComplex THEN [err |-> "", definition |-> definition]
  ELSE IF key # <<>> THEN EnumField(enums[key], definition)
  ELSE IF Len(definition.type) = 1
    THEN [err |-> "", definition |-> [definition EXCEPT !.type = namespaces \o @]]
  ELSE [err |-> "", definition |-> definition]

\* parseEntities, case "struct": the loop that rewrites enum-typed fields,
\* from field i on
RECURSIVE RewriteFields(_, _, _, _, _)
ThenRewriteFields(enums, namespaces, definitions, i, out, one) ==
  IF one.err # "" THEN [err |-> one.err, definitions |-> out]
  ELSE RewriteFields(enums, namespaces, definitions, i + 1, Append(out, one.definition))

RewriteFields(enums, namespaces, definitions, i, out) ==
  IF i > Len(definitions) THEN [err |-> "", definitions |-> out]
  ELSE ThenRewriteFields(enums, namespaces, definitions, i, out,
                         RewriteField(enums, namespaces, definitions[i],
                                      IF definitions[i].isComplex
                                        THEN lookupEnum(enums, namespaces,
                                                        definitions[i].type)
                                        ELSE <<>>))

\* parseEntities, case "struct": the type check of the default value of one
\* field, "" unless it throws
CheckDefault(definition) ==
  IF definition.defaultValue.t = "undefined" THEN ""
  ELSE IF definition.isComplex THEN "ComplexDefault"
  ELSE IF definition.isArray
    THEN (IF definition.defaultValue.t # "array" THEN "InvalidDefault"
          ELSE IF \E k \in DOMAIN definition.defaultValue.v :
                    ~defaultValueTypeCheck(definition.type, definition.defaultValue.v[k])
            THEN "InvalidDefault"
          ELSE "")
  ELSE IF ~defaultValueTypeCheck(definition.type, definition.defaultValue)
    THEN "InvalidDefault"
  ELSE ""

\* parseEntities, case "struct": the loop that type checks default values
CheckDefaults(definitions) ==
  IF \A i \in DOMAIN definitions : CheckDefault(definitions[i]) = "" THEN ""
  ELSE CheckDefault(definitions[CHOOSE i \in DOMAIN definitions :
                                  /\ CheckDefault(definitions[i]) # ""
                                  /\ \A j \in 1..(i - 1) : CheckDefault(definitions[j]) = ""])

\* parseEntities, case "struct" after the fields are rewritten
ParseStruct(st, namespaces, entity, rewritten) ==
  IF rewritten.err # "" THEN Thrown(st, rewritten.err)
  ELSE IF CheckDefaults(rewritten.definitions) # ""
    THEN Thrown(st, CheckDefaults(rewritten.definitions))
  ELSE [st EXCEPT
          !.results = Append(@, Struct(namespaces \o <<entity.name>>, namespaces,
                                       ZeroSeq(8), entity.isNakedStruct,
                                       rewritten.definitions))]

RECURSIVE parseEntities(_, _, _, _)

\* parseEntities, the switch on entity.entity, the name of the entity being
\* in st.entityNames by now
ParseEntity(entity, namespaces, st) ==
  IF entity.entity = "namespace"
    THEN (IF namespaces # <<>> THEN Thrown(st, "NestedNamespace")
          ELSE parseEntities(entity.definitions, 1, namespaces \o <<entity.name>>, st))
  ELSE IF entity.entity = "constant"
    THEN (IF ~defaultValueTypeCheck(entity.type, entity.value)
            THEN Thrown(st, "InvalidDefault")
            ELSE [st EXCEPT !.constants = @ \cup {namespaces \o <<entity.name>>}])
  ELSE IF entity.entity = "enum"
    THEN ParseEnum(st, namespaces, entity, EnumValues(entity.definitions, 1, 0, <<>>))
  ELSE ParseStruct(st, namespaces, entity,
                   RewriteFields(st.enums, namespaces, entity.definitions, 1, <<>>))

\* The body of the loop without the check for duplicate entity names
UncheckedEntity(entity, namespaces, st) ==
  ParseEntity(entity, namespaces,
              IF entity.entity # "namespace"
                THEN [st EXCEPT !.entityNames = @ \cup {namespaces \o <<entity.name>>}]
                ELSE st)

\* parseEntities, the body of its loop: the check for duplicate entity names
\* and the switch
CheckedEntity(entity, namespaces, st) ==
  IF entity.entity # "namespace" /\ namespaces \o <<entity.name>> \in st.entityNames
    THEN Thrown(st, "DuplicateEntity")
  ELSE ParseEntity(entity, namespaces,
                   IF entity.entity # "namespace"
                     THEN [st EXCEPT !.entityNames = @ \cup {namespaces \o <<entity.name>>}]
                     ELSE st)

\* parseEntities(entities, entityNames, namespaces, constants, enums), its
\* loop from entity i on: the sets and the map are shared by every call, and
\* the results of a nested call are pushed in their order
parseEntities(entities, i, namespaces, st) ==
  IF st.err # "" \/ i > Len(entities) THEN st
  ELSE parseEntities(entities, i + 1, namespaces,
                     CheckedEntity(entities[i], namespaces, st))

\* What parse returns or throws
ParseOk(schemas) == [err |-> "", schemas |-> schemas]

ParseFail(e) == [err |-> e, schemas |-> <<>>]

\* parse, the loop that computes the hash values, from result i on
RECURSIVE HashValues(_, _, _, _)
ThenHashValues(parsed, map, i, out, hash) ==
  IF hash.err # "" THEN ParseFail(hash.err)
  ELSE HashValues(parsed, map, i + 1,
                  Append(out, [parsed[i] EXCEPT !.hashValue = hash.hashValue]))

HashValues(parsed, map, i, out) ==
  IF i > Len(parsed) THEN ParseOk(out)
  ELSE IF parsed[i].isEnum THEN HashValues(parsed, map, i + 1, Append(out, parsed[i]))
  ELSE ThenHashValues(parsed, map, i, out,
                      computeHashValue(map, parsed[i].namespaces, parsed[i].name, 0))

\* parse after parseEntities returned or threw
Parsed(st) ==
  IF st.err # "" THEN ParseFail(st.err)
  ELSE IF \A i \in DOMAIN st.results : st.results[i].isEnum THEN ParseFail("NoStruct")
  ELSE HashValues(st.results, NameMap(st.results), 1, <<>>)

\* parse(messageDefinition), entities being parseResults[0]
parse(entities) ==
  IF entities = <<>> THEN ParseFail("NoEntities")
  ELSE Parsed(parseEntities(entities, 1, <<>>, ParseState("", {}, {}, <<>>, <<>>)))

\* ------------------------------------------------------------ preprocess
\* A text is a sequence of symbols: the word "#import", and the characters
\* " ", "\n", "\"", "/", "*", "$", "&" and letters. An import map is a
\* function from paths, texts themselves, to texts.

IsSpace(c) == c \in {" ", "\n"}

\* The first index from i on where text holds c, or Len(text) + 1
RECURSIVE IndexFrom(_, _, _)
IndexFrom(text, c, i) ==
  IF i > Len(text) \/ text[i] = c THEN i ELSE IndexFrom(text, c, i + 1)

\* .replace(/\/\/.*$/m, ""), the replacement without its g flag: the first
\* "//" and the rest of its line only
RECURSIVE StripFirstLineComment(_, _)
StripFirstLineComment(text, i) ==
  IF i > Len(text) THEN <<>>
  ELSE IF i < Len(text) /\ text[i] = "/" /\ text[i + 1] = "/"
    THEN SubSeq(text, IndexFrom(text, "\n", i), Len(text))
  ELSE <<text[i]>> \o StripFirstLineComment(text, i + 1)

\* .replace(/\/\/.*$/gm, ""), from index i on: "//" and the rest of its line
RECURSIVE StripLineComments(_, _)
StripLineComments(text, i) ==
  IF i > Len(text) THEN <<>>
  ELSE IF i < Len(text) /\ text[i] = "/" /\ text[i + 1] = "/"
    THEN StripLineComments(text, IndexFrom(text, "\n", i))
  ELSE <<text[i]>> \o StripLineComments(text, i + 1)

\* The first index j from i on with "*/" at j, or 0
RECURSIVE CommentEnd(_, _)
CommentEnd(text, i) ==
  IF i >= Len(text) THEN 0
  ELSE IF text[i] = "*" /\ text[i + 1] = "/" THEN i
  ELSE CommentEnd(text, i + 1)

\* .replace(/\/\*[\s\S]*?\*\//g, ""), from index i on: "/*" up to the first
\* "*/" after it
RECURSIVE StripBlockComments(_, _)
StripBlockComments(text, i) ==
  IF i > Len(text) THEN <<>>
  ELSE IF /\ i < Len(text) /\ text[i] = "/" /\ text[i + 1] = "*"
          /\ CommentEnd(text, i + 2) # 0
    THEN StripBlockComments(text, CommentEnd(text, i + 2) + 2)
  ELSE <<text[i]>> \o StripBlockComments(text, i + 1)

\* The first index from i on that holds no white space: the end of \s+
RECURSIVE SkipSpace(_, _)
SkipSpace(text, i) ==
  IF i > Len(text) \/ ~IsSpace(text[i]) THEN i ELSE SkipSpace(text, i + 1)

\* The index where a match of /#import\s+"(.+)"/ that starts at i ends, or
\* 0: .+ is greedy and stays on its line, so the match ends at the last
\* quote of the line that has a character between it and the opening quote
MatchEnd(text, i) ==
  IF ~(text[i] = "#import" /\ i < Len(text) /\ IsSpace(text[i + 1])) THEN 0
  ELSE IF ~(SkipSpace(text, i + 1) <= Len(text) /\ text[SkipSpace(text, i + 1)] = "\"")
    THEN 0
  ELSE IF \E j \in (SkipSpace(text, i + 1) + 2)..(IndexFrom(text, "\n", SkipSpace(text, i + 1)) - 1) :
            text[j] = "\""
    THEN CHOOSE j \in (SkipSpace(text, i + 1) + 2)..(IndexFrom(text, "\n", SkipSpace(text, i + 1)) - 1) :
           /\ text[j] = "\""
           /\ \A k \in (j + 1)..(IndexFrom(text, "\n", SkipSpace(text, i + 1)) - 1) :
                text[k] # "\""
  ELSE 0

\* cleanedMessageDefinition.match(/#import\s+"(.+)"/g), from index i on: the
\* matched texts in their order, <<>> for null
RECURSIVE ImportStatements(_, _)
ImportStatements(text, i) ==
  IF i > Len(text) THEN <<>>
  ELSE IF MatchEnd(text, i) = 0 THEN ImportStatements(text, i + 1)
  ELSE <<SubSeq(text, i, MatchEnd(text, i))>> \o ImportStatements(text, MatchEnd(text, i) + 1)

\* importStatement.match(/#import\s+"(.+)"/)[1]
ImportPath(importStatement) ==
  SubSeq(importStatement, SkipSpace(importStatement, 2) + 1, Len(importStatement) - 1)

\* The first index where text holds pattern, or 0
IndexOf(text, pattern) ==
  IF \E i \in 1..(Len(text) - Len(pattern) + 1) :
       SubSeq(text, i, i + Len(pattern) - 1) = pattern
    THEN CHOOSE i \in 1..(Len(text) - Len(pattern) + 1) :
           /\ SubSeq(text, i, i + Len(pattern) - 1) = pattern
           /\ \A j \in 1..(i - 1) : SubSeq(text, j, j + Len(pattern) - 1) # pattern
    ELSE 0

\* The replacement patterns of String.prototype.replace in a replacement
\* text, from index i on: "$$" inserts "$" and "$&" the matched text
RECURSIVE Substitution(_, _, _)
Substitution(replacement, matched, i) ==
  IF i > Len(replacement) THEN <<>>
  ELSE IF i < Len(replacement) /\ replacement[i] = "$" /\ replacement[i + 1] = "$"
    THEN <<"$">> \o Substitution(replacement, matched, i + 2)
  ELSE IF i < Len(replacement) /\ replacement[i] = "$" /\ replacement[i + 1] = "&"
    THEN matched \o Substitution(replacement, matched, i + 2)
  ELSE <<replacement[i]>> \o Substitution(replacement, matched, i + 1)

\* text.replace(pattern, replacement) with texts for both: the first
\* occurrence only
Replace(text, pattern, replacement) ==
  IF IndexOf(text, pattern) = 0 THEN text
  ELSE SubSeq(text, 1, IndexOf(text, pattern) - 1)
         \o Substitution(replacement, pattern, 1)
         \o SubSeq(text, IndexOf(text, pattern) + Len(pattern), Len(text))

\* What preprocessRecursive holds while it runs: the error thrown if any,
\* cleanedMessageDefinition, the shared set imported, and the paths in the
\* order imported.add was called for them
Preprocessing(err, text, imported, added) ==
  [err |-> err, text |-> text, imported |-> imported, added |-> added]

RECURSIVE ResolveImports(_, _, _, _)

\* preprocessRecursive(messageDefinition, importedDefinitions, imported), pp
\* holding the cleaned text and the set
PreprocessCleaned(importedDefinitions, pp) ==
  ResolveImports(importedDefinitions, ImportStatements(pp.text, 1), 1, pp)

preprocessRecursive(messageDefinition, importedDefinitions, imported, added) ==
  PreprocessCleaned(importedDefinitions,
                    Preprocessing("", StripBlockComments(StripLineComments(messageDefinition, 1), 1),
                                  imported, added))

\* preprocessRecursive, the first import of a path: inner is what the
\* recursive call on its content returned
ReplaceImport(importedDefinitions, importStatements, i, pp, inner) ==
  IF inner.err # "" THEN inner
  ELSE ResolveImports(importedDefinitions, importStatements, i + 1,
                      Preprocessing("", Replace(pp.text, importStatements[i], inner.text),
                                    inner.imported, inner.added))

\* preprocessRecursive, the body of the loop over importStatements
ResolveImport(importedDefinitions, importStatements, i, pp, importPath) ==
  IF importPath \notin DOMAIN importedDefinitions THEN [pp EXCEPT !.err = "ImportNotFound"]
  ELSE IF importedDefinitions[importPath] = <<>> THEN [pp EXCEPT !.err = "ImportNotFound"]
  ELSE IF importPath \notin pp.imported
    THEN ReplaceImport(importedDefinitions, importStatements, i, pp,
                       preprocessRecursive(importedDefinitions[importPath],
                                           importedDefinitions,
                                           pp.imported \cup {importPath},
                                           Append(pp.added, importPath)))
  ELSE ResolveImports(importedDefinitions, importStatements, i + 1,
                      [pp EXCEPT !.text = Replace(pp.text, importStatements[i], <<>>)])

\* preprocessRecursive, the loop over importStatements from statement i on
ResolveImports(importedDefinitions, importStatements, i, pp) ==
  IF pp.err # "" \/ i > Len(importStatements) THEN pp
  ELSE ResolveImport(importedDefinitions, importStatements, i, pp,
                     ImportPath(importStatements[i]))

\* preprocess(messageDefinition, importedDefinitions)
preprocess(messageDefinition, importedDefinitions) ==
  preprocessRecursive(messageDefinition, importedDefinitions, {}, <<>>)

\* ------------------------------------------------------- size calculation

HEADER_SIZE == 24

\* {}
EmptyObject == Obj(<<>>)

\* value != undefined && typeof value === "object"
IsObjectValue(value) == value.t \in {"object", "array", "typed"}

\* The byte width the switches of serde.ts give a numeric type tag, 0 for a
\* tag that is not numeric.
NumericWidth(type) ==
  IF type \in {<<"bool">>, <<"uint8">>, <<"int8">>} THEN 1
  ELSE IF type \in {<<"uint16">>, <<"int16">>} THEN 2
  ELSE IF type \in {<<"uint32">>, <<"int32">>, <<"float32">>} THEN 4
  ELSE IF type \in {<<"uint64">>, <<"int64">>, <<"float64">>} THEN 8
  ELSE 0

\* A size, or the error thrown instead of it.
SizeOk(n) == [err |-> "", size |-> n]

SizeFail(e) == [err |-> e, size |-> 0]

\* typeof element === "string" ? element.length : 0, summed over the
\* elements of arrayValue from index i (counted from 0) on. The elements of a
\* typed array are numbers.
RECURSIVE StringLengths(_, _)
StringLengths(arrayValue, i) ==
  IF arrayValue.t # "array" \/ i >= Len(arrayValue.v) THEN 0
  ELSE (IF arrayValue.v[i + 1].t = "string" THEN Len(arrayValue.v[i + 1].v) ELSE 0)
       + StringLengths(arrayValue, i + 1)

RECURSIVE serializedNakedMessageSize(_, _, _)
RECURSIVE SizeOfFields(_, _, _, _)
RECURSIVE SizeOfField(_, _, _, _)
RECURSIVE SizeOfElements(_, _, _, _)

\* serializedNakedMessageSize, the default branch of the array switch: the
\* sum of the naked sizes of the elements of arrayValue from index i on.
SizeOfElements(nameToSchema, nestedMsgdef, arrayValue, i) ==
  IF i >= ArrLen(arrayValue) THEN SizeOk(0)
  ELSE LET element == ElemAt(arrayValue, i)
           nestedElement == IF IsObjectValue(element) THEN element ELSE EmptyObject
           one == serializedNakedMessageSize(nameToSchema, nestedMsgdef, nestedElement)
       IN IF one.err # "" THEN one
          ELSE IF arrayValue.t = "typed"
            \* every element of a typed array is a number: the same size each
            THEN SizeOk(one.size * (ArrLen(arrayValue) - i))
          ELSE LET rest == SizeOfElements(nameToSchema, nestedMsgdef, arrayValue, i + 1)
               IN IF rest.err # "" THEN rest ELSE SizeOk(one.size + rest.size)

\* serializedNakedMessageSize, the body of its loop for one field, value
\* being message[field.name] ?? field.defaultValue.
SizeOfField(nameToSchema, msgdef, field, value) ==
  IF field.isArray THEN
    LET arrayValue == IF isArray(value) THEN value ELSE Arr(<<>>)
        arrayLength == IF field.arrayLength = -1 THEN ArrLen(arrayValue)
                       ELSE field.arrayLength
        prefix == IF field.arrayLength = -1 THEN 4 ELSE 0
    IN IF NumericWidth(field.type) > 0
         THEN SizeOk(prefix + arrayLength * NumericWidth(field.type))
       ELSE IF field.type = <<"string">> THEN
         (IF field.upperBound = -1
            THEN SizeOk(prefix + arrayLength * 4 + StringLengths(arrayValue, 0))
            ELSE SizeOk(prefix + arrayLength * field.upperBound))
       ELSE IF ArrLen(arrayValue) > 0 THEN
         LET key == lookupMsgdef(nameToSchema, msgdef.namespaces, field.type)
         IN IF key = <<>> THEN SizeFail("UnknownType")
            ELSE LET sum == SizeOfElements(nameToSchema, nameToSchema[key], arrayValue, 0)
                 IN IF sum.err # "" THEN sum ELSE SizeOk(prefix + sum.size)
       ELSE SizeOk(prefix)
  ELSE IF field.isComplex THEN
    LET key == lookupMsgdef(nameToSchema, msgdef.namespaces, field.type)
    IN IF key = <<>> THEN SizeFail("UnknownType")
       ELSE LET nestedMsgdef == nameToSchema[key]
                header == IF ~nestedMsgdef.isNakedStruct THEN HEADER_SIZE ELSE 0
                nestedValue == IF IsObjectValue(value) THEN value ELSE EmptyObject
                nested == serializedNakedMessageSize(nameToSchema, nestedMsgdef, nestedValue)
            IN IF nested.err # "" THEN nested ELSE SizeOk(header + nested.size)
  ELSE IF NumericWidth(field.type) > 0 THEN SizeOk(NumericWidth(field.type))
  ELSE IF field.type = <<"string">> THEN
    (IF field.upperBound = -1
       THEN SizeOk(4 + (IF value.t = "string" THEN Len(value.v) ELSE 0))
       ELSE SizeOk(field.upperBound))
  ELSE SizeFail("UnsupportedType")

\* serializedNakedMessageSize, its loop from field i on. Reading a property
\* of undefined throws a TypeError.
SizeOfFields(nameToSchema, msgdef, message, i) ==
  IF i > Len(msgdef.definitions) THEN SizeOk(0)
  ELSE IF message.t = "undefined" THEN SizeFail("TypeError")
  ELSE LET field == msgdef.definitions[i]
           value == Coalesce(Get(message, field.name), field.defaultValue)
           one == SizeOfField(nameToSchema, msgdef, field, value)
       IN IF one.err # "" THEN one
          ELSE LET rest == SizeOfFields(nameToSchema, msgdef, message, i + 1)
               IN IF rest.err # "" THEN rest ELSE SizeOk(one.size + rest.size)

serializedNakedMessageSize(nameToSchema, msgdef, message) ==
  SizeOfFields(nameToSchema, msgdef, message, 1)

\* serializedMessageSize(nameToSchema, message), message being a
\* CbufMessageData [typeName, timestamp, message].
serializedMessageSize(nameToSchema, message) ==
  IF message.message.t \notin {"object", "array", "typed"}
    THEN SizeFail("MessageNotObject")
  ELSE IF message.typeName # METADATA_DEFINITION.name
          /\ message.typeName \notin DOMAIN nameToSchema
    THEN SizeFail("UnknownMessageType")
  ELSE LET msgdef == IF message.typeName = METADATA_DEFINITION.name
                       THEN METADATA_DEFINITION
                       ELSE nameToSchema[message.typeName]
           naked == serializedNakedMessageSize(nameToSchema, msgdef, message.message)
       IN IF naked.err # "" THEN naked ELSE SizeOk(HEADER_SIZE + naked.size)

\* ---------------------------------------------------------- serialization
\* What a call writes, from the offset it is given on: len bytes, those after
\* data being zero; or the error it throws. cap is view.byteLength.

Written(data) == [err |-> "", data |-> data, len |-> Len(data)]

WrittenZeros(n) == [err |-> "", data |-> <<>>, len |-> n]

WriteFail(e) == [err |-> e, data |-> <<>>, len |-> 0]

\* a followed by b
Cat(a, b) ==
  IF a.err # "" THEN a
  ELSE IF b.err # "" THEN b
  ELSE IF b.data = <<>> THEN [a EXCEPT !.len = a.len + b.len]
  ELSE [err |-> "",
        data |-> a.data \o ZeroSeq(a.len - Len(a.data)) \o b.data,
        len |-> a.len + b.len]

\* view.setUint8/.../setFloat64(offset, ...): a RangeError past the end
Write(cap, offset, bytes) ==
  IF offset + Len(bytes) > cap THEN WriteFail("RangeError") ELSE Written(bytes)

CBUF_MAGIC == 1447317076

\* serializeNonArrayField, the switch on field.type of a simple field
WriteBasicType(field, value, cap, curOffset) ==
  LET type == field.type IN
  IF type \in {<<"bool">>, <<"uint8">>, <<"int8">>}
    THEN Write(cap, curOffset, IntLE(getNumber(value), 1))
  ELSE IF type \in {<<"uint16">>, <<"int16">>}
    THEN Write(cap, curOffset, IntLE(getNumber(value), 2))
  ELSE IF type \in {<<"uint32">>, <<"int32">>}
    THEN Write(cap, curOffset, IntLE(getNumber(value), 4))
  ELSE IF type = <<"float32">>
    THEN Write(cap, curOffset, F32LE(getNumber(value)))
  ELSE IF type \in {<<"uint64">>, <<"int64">>}
    THEN Write(cap, curOffset, IntLE(getBigInt(value), 8))
  ELSE IF type = <<"float64">>
    THEN Write(cap, curOffset, F64LE(getNumber(value)))
  ELSE IF type = <<"string">> THEN
    LET unbounded == field.upperBound = -1
        length == IF unbounded
                    THEN (IF value.t = "string" THEN Len(value.v) ELSE 0)
                    ELSE field.upperBound
        prefix == IF unbounded THEN Write(cap, curOffset, IntLE(length, 4))
                  ELSE Written(<<>>)
    IN IF prefix.err # "" \/ length = 0 THEN prefix
       \* new Uint8Array(view.buffer, byteOffset, length)
       ELSE IF curOffset + prefix.len + length > cap THEN WriteFail("RangeError")
       ELSE IF value.t = "string" /\ Len(value.v) > 0
         \* dest.set(bytes.slice(0, length)): the rest of dest stays zero
         THEN LET bytes == Utf8Encode(value.v)
              IN Cat(prefix, [err |-> "",
                              data |-> SubSeq(bytes, 1, Min(Len(bytes), length)),
                              len |-> length])
       \* dest.fill(0)
       ELSE Cat(prefix, WrittenZeros(length))
  ELSE WriteFail("UnsupportedType")

RECURSIVE serializeNakedMessage(_, _, _, _, _)
RECURSIVE serializeNonArrayField(_, _, _, _, _, _)
RECURSIVE SerializeElements(_, _, _, _, _, _, _, _)
RECURSIVE SerializeFields(_, _, _, _, _, _)

\* The four writes of a preamble at offset: CBUF_MAGIC, the size word, the
\* hashValue and the timestamp
Preamble(size, hashValue, timestamp, cap, offset) ==
  Cat(Cat(Cat(Write(cap, offset, IntLE(CBUF_MAGIC, 4)),
              Write(cap, offset + 4, IntLE(size, 4))),
          Write(cap, offset + 8, hashValue)),
      Write(cap, offset + 16, F64LE(timestamp)))

\* serializeNonArrayField, the preamble of a nested non-naked struct:
\* nestedSize is what serializedNakedMessageSize returned or threw
NestedPreamble(nestedSize, nestedMsgdef, cap, curOffset) ==
  IF nestedSize.err # "" THEN WriteFail(nestedSize.err)
  ELSE Preamble(HEADER_SIZE + nestedSize.size, nestedMsgdef.hashValue, 0, cap, curOffset)

\* serializeNonArrayField, the fields of a nested struct after its header
\* (a preamble, or nothing for a naked struct)
SerializeNested(nameToSchema, nestedMsgdef, value, cap, curOffset, header) ==
  IF header.err # "" THEN header
  ELSE Cat(header, serializeNakedMessage(nameToSchema, nestedMsgdef, value, cap,
                                         curOffset + header.len))

\* serializeNonArrayField for a complex field, key being what lookupMsgdef
\* returned
SerializeComplex(nameToSchema, key, value, cap, curOffset) ==
  IF key = <<>> THEN WriteFail("UnknownType")
  ELSE SerializeNested(nameToSchema, nameToSchema[key], value, cap, curOffset,
                       IF nameToSchema[key].isNakedStruct THEN Written(<<>>)
                       ELSE NestedPreamble(serializedNakedMessageSize(nameToSchema,
                                                                     nameToSchema[key], value),
                                           nameToSchema[key], cap, curOffset))

serializeNonArrayField(nameToSchema, namespaces, field, value, cap, curOffset) ==
  IF field.isComplex
    THEN SerializeComplex(nameToSchema, lookupMsgdef(nameToSchema, namespaces, field.type),
                          value, cap, curOffset)
    ELSE WriteBasicType(field, value, cap, curOffset)

\* The number of elements from index i on that are the zeros after the data
\* of a typed array and are written by a simple field: they are the number
\* 0, written as zero bytes, and are taken at once. 0 when element i is none.
ZeroTail(field, arrayValue, arrayLength, i) ==
  IF /\ arrayValue.t = "typed" /\ i >= Len(arrayValue.v.data) /\ i < arrayValue.v.len
     /\ ~field.isComplex
     /\ (NumericWidth(field.type) > 0 \/ field.type = <<"string">>)
    THEN Min(arrayLength, arrayValue.v.len) - i
    ELSE 0

\* n elements written like one, which is zero bytes
ZeroRun(one, n, cap, offset) ==
  IF one.err # "" THEN one
  ELSE IF offset + n * one.len > cap THEN WriteFail("RangeError")
  ELSE WrittenZeros(n * one.len)

\* serializeNakedMessage, the rest of the loop over the elements of an array
\* after one was written
ThenElements(nameToSchema, namespaces, field, arrayValue, arrayLength, next, cap, offset, one) ==
  IF one.err # "" THEN one
  ELSE Cat(one, SerializeElements(nameToSchema, namespaces, field, arrayValue, arrayLength,
                                  next, cap, offset + one.len))

\* serializeNakedMessage, the loop over the elements of an array field from
\* index i on
SerializeElements(nameToSchema, namespaces, field, arrayValue, arrayLength, i, cap, offset) ==
  IF i >= arrayLength THEN Written(<<>>)
  ELSE ThenElements(nameToSchema, namespaces, field, arrayValue, arrayLength,
                    i + Max(1, ZeroTail(field, arrayValue, arrayLength, i)), cap, offset,
                    IF ZeroTail(field, arrayValue, arrayLength, i) > 0
                      THEN ZeroRun(WriteBasicType(field, ElemAt(arrayValue, i), cap, offset),
                                   ZeroTail(field, arrayValue, arrayLength, i), cap, offset)
                      ELSE serializeNonArrayField(nameToSchema, namespaces, field,
                                                  ElemAt(arrayValue, i), cap, offset))

\* serializeNakedMessage, the body of its loop for an array field
SerializeArray(nameToSchema, namespaces, field, arrayValue, cap, offset) ==
  Cat(IF field.arrayLength = -1 THEN Write(cap, offset, IntLE(ArrLen(arrayValue), 4))
      ELSE Written(<<>>),
      SerializeElements(nameToSchema, namespaces, field, arrayValue,
                        IF field.arrayLength = -1 THEN ArrLen(arrayValue)
                        ELSE field.arrayLength,
                        0, cap, offset + (IF field.arrayLength = -1 THEN 4 ELSE 0)))

\* serializeNakedMessage, the body of its loop for one field
SerializeField(nameToSchema, namespaces, field, value, cap, offset) ==
  IF field.isArray
    THEN SerializeArray(nameToSchema, namespaces, field,
                        IF isArray(value) THEN value ELSE Arr(<<>>), cap, offset)
    ELSE serializeNonArrayField(nameToSchema, namespaces, field, value, cap, offset)

\* serializeNakedMessage, the rest of its loop after one field was written
ThenFields(nameToSchema, msgdef, message, next, cap, offset, one) ==
  IF one.err # "" THEN one
  ELSE Cat(one, SerializeFields(nameToSchema, msgdef, message, next, cap, offset + one.len))

\* serializeNakedMessage, its loop from field i on. Reading a property of
\* undefined throws a TypeError.
SerializeFields(nameToSchema, msgdef, message, i, cap, offset) ==
  IF i > Len(msgdef.definitions) THEN Written(<<>>)
  ELSE IF message.t = "undefined" THEN WriteFail("TypeError")
  ELSE ThenFields(nameToSchema, msgdef, message, i + 1, cap, offset,
                  SerializeField(nameToSchema, msgdef.namespaces, msgdef.definitions[i],
                                 Coalesce(Get(message, msgdef.definitions[i].name),
                                          msgdef.definitions[i].defaultValue),
                                 cap, offset))

serializeNakedMessage(nameToSchema, msgdef, message, cap, offset) ==
  SerializeFields(nameToSchema, msgdef, message, 1, cap, offset)

\* What serializeMessage returns or throws, with its locals at that point.
SerializeFail(e) ==
  [err |-> e, size |-> 0, written |-> 0, buffer |-> [data |-> <<>>, len |-> 0]]

\* serializeMessage, its result: all is what was written into the size bytes
SerializeResult(size, all) ==
  IF all.err # "" THEN [SerializeFail(all.err) EXCEPT !.size = size]
  ELSE [err |-> "", size |-> size, written |-> all.len,
        buffer |-> [data |-> all.data, len |-> size]]

\* serializeMessage from new ArrayBuffer(size) on, size being what
\* serializedMessageSize returned or threw
SerializeSized(nameToSchema, msgdef, message, size) ==
  IF size.err # "" THEN SerializeFail(size.err)
  ELSE SerializeResult(size.size,
                       Cat(Preamble(size.size, msgdef.hashValue, message.timestamp,
                                    size.size, 0),
                           serializeNakedMessage(nameToSchema, msgdef, message.message,
                                                 size.size, HEADER_SIZE)))

\* serializeMessage(nameToSchema, message): buffer is the ArrayBuffer it
\* returns, size the number of bytes allocated, written the final curOffset.
serializeMessage(nameToSchema, message) ==
  IF message.typeName # METADATA_DEFINITION.name
     /\ message.typeName \notin DOMAIN nameToSchema
    THEN SerializeFail("UnknownMessageType")
  ELSE SerializeSized(nameToSchema,
                      IF message.typeName = METADATA_DEFINITION.name
                        THEN METADATA_DEFINITION
                        ELSE nameToSchema[message.typeName],
                      message, serializedMessageSize(nameToSchema, message))

\* -------------------------------------------------------- deserialization
\* An ArrayBufferView (Uint8Array, DataView) is [buffer, byteOffset, byteLength].

View(buffer, byteOffset, byteLength) ==
  [buffer |-> buffer, byteOffset |-> byteOffset, byteLength |-> byteLength]

\* The byte at index i (from 0) of an ArrayBuffer
BufByte(buffer, i) == IF i < Len(buffer.data) THEN buffer.data[i + 1] ELSE 0

\* The n bytes of an ArrayBuffer from index offset on
BufSlice(buffer, offset, n) == [k \in 1..n |-> BufByte(buffer, offset + k - 1)]

\* Whether view.getXxx(offset) of n bytes is within the DataView
InView(view, offset, n) == offset >= 0 /\ offset + n <= view.byteLength

\* The n bytes view.getXxx(offset) reads
ViewBytes(view, offset, n) == BufSlice(view.buffer, view.byteOffset + offset, n)

\* A getUint32 result as far as 31 bits hold it: 2^31 - 1 stands for every
\* value from there on (none of them is a length any buffer has).
Uint32OrHuge(b) == IF b[4] >= 128 THEN 2147483647 ELSE UnsignedLE(b)

\* An unsigned integer read from bytes, as tag "number" or "bigint"; a value
\* of 2^31 or more is kept as its bytes under the tag "wide".
UnsignedValue(b, tag) ==
  IF \E k \in 1..Len(b) : (k > 4 /\ b[k] # 0) \/ (k = 4 /\ b[k] >= 128)
    THEN [t |-> "wide", v |-> b]
    ELSE [t |-> tag, v |-> UnsignedLE(b)]

\* A signed integer read from bytes; a value outside -2^31 .. 2^31 - 1 is
\* kept as its bytes under the tag "wide".
SignedValue(b, tag) ==
  LET w == Len(b)
      neg == b[w] >= 128
      ext == IF neg THEN 255 ELSE 0
  IN IF w > 4 /\ (\/ \E k \in 5..w : b[k] # ext
                  \/ (b[4] >= 128) # neg)
       THEN [t |-> "wide", v |-> b]
       ELSE [t |-> tag, v |-> SignedLE(b)]

\* What a read returns: the bytes consumed and the value, or the error thrown.
\* views holds, for every typed array in value that is a view on the
\* ArrayBuffer the call was given, its constructor, byteOffset and length.
ReadOk(consumed, value) ==
  [err |-> "", consumed |-> consumed, value |-> value, views |-> {}]

ReadFail(e) == [err |-> e, consumed |-> 0, value |-> Undef, views |-> {}]

\* read, with the views of a value stored next to its own
WithViews(read, views) == [read EXCEPT !.views = @ \cup views]

\* The value of one element of the given numeric type read from bytes b
NumericValue(type, b) ==
  IF type = <<"bool">> THEN Bool(b[1] # 0)
  ELSE IF type \in {<<"uint8">>, <<"uint16">>, <<"uint32">>} THEN UnsignedValue(b, "number")
  ELSE IF type \in {<<"int8">>, <<"int16">>, <<"int32">>} THEN SignedValue(b, "number")
  ELSE IF type = <<"uint64">> THEN UnsignedValue(b, "bigint")
  ELSE IF type = <<"int64">> THEN SignedValue(b, "bigint")
  ELSE IF type = <<"float32">> THEN GetFloat32(b)
  ELSE GetFloat64(b)

\* readBasicType(view, offset, message, field): value is what it stores in
\* message[field.name]
readBasicType(view, offset, field) ==
  IF NumericWidth(field.type) > 0 THEN
    LET n == NumericWidth(field.type)
    IN IF ~InView(view, offset, n) THEN ReadFail("RangeError")
       ELSE ReadOk(n, NumericValue(field.type, ViewBytes(view, offset, n)))
  ELSE IF field.type = <<"string">> THEN
    LET unbounded == field.upperBound = -1 IN
    IF unbounded /\ ~InView(view, offset, 4) THEN ReadFail("RangeError")
    ELSE LET length == IF unbounded THEN Uint32OrHuge(ViewBytes(view, offset, 4))
                       ELSE field.upperBound
             curOffset == IF unbounded THEN 4 ELSE 0
             start == view.byteOffset + offset + curOffset
         \* new Uint8Array(view.buffer, start, length)
         IN IF start < 0 \/ length > view.buffer.len \/ start + length > view.buffer.len
              THEN ReadFail("RangeError")
              ELSE ReadOk(curOffset + length,
                          Str(BeforeNul(Utf8Decode(BufSlice(view.buffer, start, length)))))
  ELSE ReadFail("UnsupportedType")

\* The typed array constructor deserializeNakedMessage pairs with a type tag
TypedArrayConstructor(type) ==
  IF type = <<"uint8">> THEN "Uint8Array"
  ELSE IF type = <<"int8">> THEN "Int8Array"
  ELSE IF type = <<"uint16">> THEN "Uint16Array"
  ELSE IF type = <<"int16">> THEN "Int16Array"
  ELSE IF type = <<"uint32">> THEN "Uint32Array"
  ELSE IF type = <<"int32">> THEN "Int32Array"
  ELSE IF type = <<"uint64">> THEN "BigUint64Array"
  ELSE IF type = <<"int64">> THEN "BigInt64Array"
  ELSE IF type = <<"float32">> THEN "Float32Array"
  ELSE "Float64Array"

\* s without its trailing elements equal to zero
RECURSIVE StripZeros(_, _)
StripZeros(s, zero) ==
  IF s # <<>> /\ s[Len(s)] = zero THEN StripZeros(SubSeq(s, 1, Len(s) - 1), zero) ELSE s

\* A typedArray that copies the elements whatever the offset
NeverAligned(type, offset) == FALSE

\* typedArray, its test offset % TypedArrayConstructor.BYTES_PER_ELEMENT === 0
IsAligned(type, offset) == offset % NumericWidth(type) = 0

\* typedArray, the views of its result: new TypedArrayConstructor(buffer,
\* offset, length) is a view on buffer, and the array made from copy.buffer
\* is not
TypedArrayViews(type, offset, length) ==
  IF IsAligned(type, offset)
    THEN {[ctor |-> TypedArrayConstructor(type), byteOffset |-> offset, length |-> length]}
    ELSE {}

\* typedArray(TypedArrayConstructor, buffer, offset, length): the array of
\* length elements of the type read from buffer at offset (both branches,
\* the view and the copy, hold the same elements and throw alike).
typedArray(type, buffer, offset, length) ==
  LET w == NumericWidth(type) IN
  IF length > buffer.len \/ offset + length * w > buffer.len THEN ReadFail("RangeError")
  ELSE LET explicit == IF offset >= Len(buffer.data) THEN 0
                       ELSE Min(length, (Len(buffer.data) - offset + w - 1) \div w)
           float == type \in {<<"float32">>, <<"float64">>}
           elems == [k \in 1..explicit |->
                       LET x == NumericValue(type, BufSlice(buffer, offset + (k - 1) * w, w))
                       IN IF float THEN x ELSE x.v]
       IN WithViews(ReadOk(length * w,
                           Typed(TypedArrayConstructor(type),
                                 StripZeros(elems, IF float THEN Num(0) ELSE 0), length)),
                    TypedArrayViews(type, offset, length))

\* What deserializeMessage returns (err = "") or throws, with its locals at
\* that point: sizeAndVariant as the four bytes read, consumed = curOffset.
NoRecord ==
  [err |-> "", typeName |-> <<>>, size |-> 0, variant |-> 0, hashValue |-> <<>>,
   timestamp |-> Undef, message |-> Undef, sizeAndVariant |-> <<>>, consumed |-> 0,
   views |-> {}]

\* sizeAndVariant & 0x7fffffff, from the four bytes of the word
Low31(b) == b[1] + 256 * b[2] + 65536 * b[3] + 16777216 * (b[4] % 128)

\* A decoder that never takes bits 27..30 for a variant
NeverVariant(b) == FALSE

\* (sizeAndVariant & 0x8000000) >>> 0 === 0x8000000
HasVariant(b) == (b[4] \div 8) % 2 = 1

\* A decoder that masks the size with 0x07ffffff with or without a variant
SizeLow27(b) == Low31(b) % 134217728

\* hasVariant ? sizeAndVariant & 0x07ffffff : sizeAndVariant & 0x7fffffff
SizeOf(b) == IF HasVariant(b) THEN Low31(b) % 134217728 ELSE Low31(b)

\* hasVariant ? (sizeAndVariant >> 27) & 0x0f : 0
VariantOf(b) == IF HasVariant(b) THEN (Low31(b) \div 134217728) % 16 ELSE 0

\* A decoder that does not compare the decoded size with the size word
AnySize(curOffset, size) == TRUE

\* The test deserializeMessage makes after decoding: curOffset !== size throws
SizeMatches(curOffset, size) == curOffset = size

RECURSIVE deserializeMessage(_, _, _, _)
RECURSIVE deserializeNakedMessage(_, _, _, _, _)
RECURSIVE readNonArrayField(_, _, _, _, _, _)
RECURSIVE ReadElements(_, _, _, _, _, _, _, _, _, _)
RECURSIVE ReadFields(_, _, _, _, _, _, _, _)

\* readNonArrayField for a nested non-naked struct: what it stores and
\* returns from the record deserializeMessage returned
NestedResult(nestedMessage) ==
  IF nestedMessage.err # "" THEN ReadFail(nestedMessage.err)
  ELSE WithViews(ReadOk(nestedMessage.size, nestedMessage.message), nestedMessage.views)

\* readNonArrayField for a complex field, key being what lookupMsgdef returned
ReadComplex(schemaMap, hashMap, key, view, offset) ==
  IF key = <<>> THEN ReadFail("UnknownType")
  ELSE IF schemaMap[key].isNakedStruct
    THEN deserializeNakedMessage(schemaMap, hashMap, schemaMap[key], view, offset)
  ELSE NestedResult(deserializeMessage(schemaMap, hashMap, view, offset))

readNonArrayField(schemaMap, hashMap, field, namespaces, view, offset) ==
  IF field.isComplex
    THEN ReadComplex(schemaMap, hashMap, lookupMsgdef(schemaMap, namespaces, field.type),
                     view, offset)
    ELSE readBasicType(view, offset, field)

\* deserializeNakedMessage, the rest of the loop of its default branch after
\* element i was read
ThenReadElements(schemaMap, hashMap, field, namespaces, view, offset, arrayLength, i, innerOffset, array, one) ==
  IF one.err # "" THEN ReadFail(one.err)
  ELSE WithViews(ReadElements(schemaMap, hashMap, field, namespaces, view, offset,
                              arrayLength, i + 1, innerOffset + one.consumed,
                              Append(array, one.value)),
                 one.views)

\* deserializeNakedMessage, the loop of its default branch from element i on:
\* innerOffset counts from the start of the elements, array holds the
\* elements read so far.
ReadElements(schemaMap, hashMap, field, namespaces, view, offset, arrayLength, i, innerOffset, array) ==
  IF i >= arrayLength THEN ReadOk(innerOffset, Arr(array))
  ELSE ThenReadElements(schemaMap, hashMap, field, namespaces, view, offset, arrayLength,
                        i, innerOffset, array,
                        readNonArrayField(schemaMap, hashMap, field, namespaces, view,
                                          offset + innerOffset))

\* deserializeNakedMessage, the bool loop: arrayLength reads of one byte
ReadBools(view, offset, arrayLength) ==
  IF arrayLength > 0 /\ (arrayLength > view.byteLength \/ ~InView(view, offset, arrayLength))
    THEN ReadFail("RangeError")
    ELSE ReadOk(arrayLength,
                Arr([k \in 1..arrayLength |-> Bool(ViewBytes(view, offset + k - 1, 1)[1] # 0)]))

\* deserializeNakedMessage, the switch on field.type of an array field whose
\* arrayLength elements start at offset
ReadArrayElements(schemaMap, hashMap, namespaces, field, view, offset, arrayLength) ==
  IF field.type = <<"bool">> THEN ReadBools(view, offset, arrayLength)
  ELSE IF NumericWidth(field.type) > 0
    THEN typedArray(field.type, view.buffer, view.byteOffset + offset, arrayLength)
  ELSE ReadElements(schemaMap, hashMap, field, namespaces, view, offset, arrayLength,
                    0, 0, <<>>)

\* The bytes consumed by an array field: its elements and the innerOffset
\* bytes of the count before them
AfterCount(innerOffset, elements) ==
  IF elements.err # "" THEN elements
  ELSE WithViews(ReadOk(innerOffset + elements.consumed, elements.value), elements.views)

\* deserializeNakedMessage, the body of its loop for an array field at offset
ReadArrayField(schemaMap, hashMap, namespaces, field, view, offset) ==
  IF field.arrayLength = -1 /\ ~InView(view, offset, 4) THEN ReadFail("RangeError")
  ELSE AfterCount(IF field.arrayLength = -1 THEN 4 ELSE 0,
                  ReadArrayElements(schemaMap, hashMap, namespaces, field, view,
                                    offset + (IF field.arrayLength = -1 THEN 4 ELSE 0),
                                    IF field.arrayLength = -1
                                      THEN Uint32OrHuge(ViewBytes(view, offset, 4))
                                      ELSE field.arrayLength))

\* deserializeNakedMessage, the body of its loop for one field at offset
ReadField(schemaMap, hashMap, namespaces, field, view, offset) ==
  IF field.isArray
    THEN ReadArrayField(schemaMap, hashMap, namespaces, field, view, offset)
    ELSE readNonArrayField(schemaMap, hashMap, field, namespaces, view, offset)

\* deserializeNakedMessage, the rest of its loop after field i was read
ThenReadFields(schemaMap, hashMap, msgdef, view, offset, i, innerOffset, output, one) ==
  IF one.err # "" THEN ReadFail(one.err)
  ELSE WithViews(ReadFields(schemaMap, hashMap, msgdef, view, offset, i + 1,
                            innerOffset + one.consumed,
                            (msgdef.definitions[i].name :> one.value) @@ output),
                 one.views)

\* deserializeNakedMessage, its loop from field i on: output holds the fields
\* read so far
ReadFields(schemaMap, hashMap, msgdef, view, offset, i, innerOffset, output) ==
  IF i > Len(msgdef.definitions) THEN ReadOk(innerOffset, Obj(output))
  ELSE ThenReadFields(schemaMap, hashMap, msgdef, view, offset, i, innerOffset, output,
                      ReadField(schemaMap, hashMap, msgdef.namespaces,
                                msgdef.definitions[i], view, offset + innerOffset))

\* deserializeNakedMessage(schemaMap, hashMap, msgdef, view, offset, output):
\* consumed is the number it returns, value the output object it filled
deserializeNakedMessage(schemaMap, hashMap, msgdef, view, offset) ==
  ReadFields(schemaMap, hashMap, msgdef, view, offset, 1, 0, <<>>)

\* deserializeMessage after deserializeNakedMessage returned or threw: read
\* holds the fields of the preamble
Decoded(read, naked) ==
  IF naked.err # "" THEN [read EXCEPT !.err = naked.err, !.consumed = HEADER_SIZE]
  ELSE IF ~SizeMatches(HEADER_SIZE + naked.consumed, read.size)
    THEN [read EXCEPT !.err = "SizeMismatch", !.consumed = HEADER_SIZE + naked.consumed]
  ELSE [read EXCEPT !.message = naked.value, !.consumed = HEADER_SIZE + naked.consumed,
                    !.views = naked.views]

\* deserializeMessage from the check of the size on
ReadPreamble(nameToSchema, hashToSchema, view, sizeAndVariant, hashValue, timestamp) ==
  IF SizeOf(sizeAndVariant) > view.byteLength
    THEN [NoRecord EXCEPT !.err = "SizeExceedsBuffer", !.consumed = 8,
                          !.sizeAndVariant = sizeAndVariant,
                          !.size = SizeOf(sizeAndVariant),
                          !.variant = VariantOf(sizeAndVariant)]
  ELSE IF hashValue # METADATA_DEFINITION.hashValue /\ hashValue \notin DOMAIN hashToSchema
    THEN [NoRecord EXCEPT !.err = "HashNotFound", !.consumed = 24,
                          !.sizeAndVariant = sizeAndVariant,
                          !.size = SizeOf(sizeAndVariant),
                          !.variant = VariantOf(sizeAndVariant),
                          !.hashValue = hashValue, !.timestamp = timestamp]
  ELSE IF hashValue = METADATA_DEFINITION.hashValue
    THEN Decoded([NoRecord EXCEPT !.sizeAndVariant = sizeAndVariant,
                                  !.size = SizeOf(sizeAndVariant),
                                  !.variant = VariantOf(sizeAndVariant),
                                  !.hashValue = hashValue, !.timestamp = timestamp,
                                  !.typeName = METADATA_DEFINITION.name],
                 deserializeNakedMessage(nameToSchema, hashToSchema, METADATA_DEFINITION,
                                         view, HEADER_SIZE))
  ELSE Decoded([NoRecord EXCEPT !.sizeAndVariant = sizeAndVariant,
                                !.size = SizeOf(sizeAndVariant),
                                !.variant = VariantOf(sizeAndVariant),
                                !.hashValue = hashValue, !.timestamp = timestamp,
                                !.typeName = hashToSchema[hashValue].name],
               deserializeNakedMessage(nameToSchema, hashToSchema, hashToSchema[hashValue],
                                       view, HEADER_SIZE))

\* deserializeMessage from new DataView(data.buffer, byteOffset, byteLength)
\* on, view being its three arguments
ReadMessage(nameToSchema, hashToSchema, view) ==
  IF \/ view.byteLength < 0
     \/ view.byteOffset > view.buffer.len
     \/ view.byteOffset + view.byteLength > view.buffer.len
    THEN [NoRecord EXCEPT !.err = "RangeError"]
  ELSE IF view.byteLength < 24 THEN [NoRecord EXCEPT !.err = "BufferTooSmall"]
  ELSE IF ViewBytes(view, 0, 4) # IntLE(CBUF_MAGIC, 4)
    THEN [NoRecord EXCEPT !.err = "BadMagic", !.consumed = 4]
  ELSE ReadPreamble(nameToSchema, hashToSchema, view, ViewBytes(view, 4, 4),
                    ViewBytes(view, 8, 8), GetFloat64(ViewBytes(view, 16, 8)))

\* deserializeMessage(nameToSchema, hashToSchema, data, offset)
deserializeMessage(nameToSchema, hashToSchema, data, offset) ==
  IF offset < 0 \/ offset >= data.byteOffset + data.byteLength
    THEN [NoRecord EXCEPT !.err = "InvalidOffset"]
  ELSE ReadMessage(nameToSchema, hashToSchema,
                   View(data.buffer, data.byteOffset + offset, data.byteLength - offset))

\* ------------------------------------------------------------- the inputs

\* The longest string drawn letter by letter
MaxLen == 2

\* The largest number of elements supplied for an array field
MaxElems == 3

\* The largest number of bytes that precede a message in its ArrayBuffer
MaxPad == 2

\* The code units the strings are drawn from: "A", "é" and NUL
Chars == {65, 233, 0}

Strings == UNION {[1..n -> Chars] : n \in 0..MaxLen}

\* "AAAAAAAAAAAAAAAA", 16 code units
Sixteen == [i \in 1..16 |-> 65]

\* Strings longer than a short_string holds: 17 letters, and 15 letters
\* followed by "é" (17 bytes of UTF-8)
Seventeen == [i \in 1..17 |-> 65]

FifteenAndAccent == [i \in 1..15 |-> 65] \o <<233>>

\* "Hello, world!"
Hello == <<72, 101, 108, 108, 111, 44, 32, 119, 111, 114, 108, 100, 33>>

\* The length of the largest byte array: 2^27
Giant == 2 ^ 27

\* The schema maps every call is given
nameToSchema == NameMap(ParsedSchema)

hashToSchema == HashMap(ParsedSchema)

\* { [name]: value } for each value of the set, and {} (the field left out)
Optional(name, values) == {<<>>} \cup {(name :> v) : v \in values}

\* An array of n copies of value
Repeat(value, n) == Arr([i \in 1..n |-> value])

\* A message of struct s
SMessage(text) == Obj([b |-> Str(text)])

NestedMessage(text) == Obj([text |-> Str(text)])

ComplexMessage ==
  Obj([inner |-> NestedMessage(<<104, 105>>), b |-> Str(<<120>>), g |-> Big(-4),
       v |-> Typed("Uint16Array", <<1, 2>>, 3)])

\* A message of ns1::complex of 32 bytes that read as a metadata message
\* are a msg_hash, a msg_name of 16 bytes (the 5th byte of b is its length)
\* and an empty msg_meta
MetadataLike ==
  Obj([inner |-> NestedMessage(<<>>), b |-> Str(<<65, 65, 65, 65, 16>>), g |-> Big(0),
       v |-> Typed("Uint16Array", <<>>, 0)])

\* The field maps drawn for each struct of the schema
Payloads ==
  [name \in DOMAIN nameToSchema |->
     IF name = <<"a">>
       THEN {Obj(b @@ c) : b \in Optional("b", {Str(x) : x \in Strings \cup {Hello}}),
                           c \in Optional("c", {Bool(TRUE)})}
     ELSE IF name = <<"s">>
       THEN {Obj(b) : b \in Optional("b", {Str(x) : x \in Strings \cup
                                             {Sixteen, Seventeen, FifteenAndAccent}})}
     ELSE IF name = <<"ns1", "nested">>
       THEN {EmptyObject, NestedMessage(<<65>>)}
     ELSE IF name = <<"ns1", "complex">>
       THEN {EmptyObject, ComplexMessage}
     ELSE IF name = <<"ns2", "outer">>
       THEN {EmptyObject, Obj([b |-> EmptyObject]),
             Obj([a |-> Bool(TRUE), b |-> MetadataLike, c |-> Num(7)]),
             Obj([a |-> Bool(TRUE), b |-> ComplexMessage, c |-> Num(7)])}
     ELSE IF name = <<"c">>
       THEN {Obj(d @@ g) : d \in Optional("d", {Num(2)}),
                           g \in Optional("g", {Repeat(SMessage(<<53>>), n) : n \in 0..MaxElems})}
     ELSE IF name = <<"d">>
       THEN {Obj(n) : n \in Optional("n", {Repeat(Str(<<65>>), k) : k \in 0..MaxElems})}
     ELSE IF name = <<"e">>
       THEN {Obj(q @@ p) :
               q \in Optional("q", {Repeat(NestedMessage(<<104, 105>>), n) : n \in 0..MaxElems}),
               p \in Optional("p", {Repeat(SMessage(<<53>>), n) : n \in 0..MaxElems})}
     ELSE IF name = <<"f">>
       THEN {Obj(x @@ w) :
               x \in Optional("x", {Repeat(Bool(TRUE), n) : n \in 0..MaxElems}),
               w \in Optional("w", {Typed("Uint16Array", <<258>>, 2)})}
     ELSE {Obj(data) :
             data \in Optional("data", {Typed("Uint8Array", [i \in 1..Min(n, 1) |-> 7], n) :
                                          n \in 0..MaxElems \cup {Giant}})}]

\* The timestamp of every message drawn
Timestamp == 3

\* The CbufMessageData values drawn
Messages ==
  UNION {{[typeName |-> name, timestamp |-> Timestamp, message |-> payload] :
            payload \in Payloads[name]} : name \in DOMAIN nameToSchema}

\* The buffers and offsets deserializeMessage is called with, made from the
\* ArrayBuffer a serializeMessage call returned.

\* The buffer with its sizeAndVariant word (bytes 4..7) replaced
WithWord(buffer, word) ==
  [buffer EXCEPT !.data = SubSeq(@, 1, 4) \o word \o SubSeq(@, 9, Len(@))]

\* The four bytes of a word with bits 27..31 set to top
WithTopBits(word, top) == [word EXCEPT ![4] = (@ % 8) + 8 * top]

\* The buffer with its first byte replaced
WithFirstByte(buffer, byte) == [buffer EXCEPT !.data[1] = byte]

\* The buffer with its hashValue (bytes 8..15) replaced
WithHash(buffer, hashValue) ==
  [buffer EXCEPT !.data = SubSeq(@, 1, 8) \o hashValue \o SubSeq(@, 17, Len(@))]

\* The offset of the preamble of field b in a message of ns2::outer, after
\* the preamble and the bool a
NestedOffset == HEADER_SIZE + 1

\* The buffer holds a preamble at NestedOffset
HasNestedPreamble(buffer) ==
  /\ buffer.len >= NestedOffset + HEADER_SIZE
  /\ SubSeq(buffer.data, NestedOffset + 1, NestedOffset + 4) = IntLE(CBUF_MAGIC, 4)

\* The buffer with the hashValue of the preamble at NestedOffset replaced
WithNestedHash(buffer, hashValue) ==
  [buffer EXCEPT !.data = SubSeq(@, 1, NestedOffset + 8) \o hashValue
                            \o SubSeq(@, NestedOffset + 17, Len(@))]

\* An ArrayBuffer in which pad bytes precede the bytes of buffer
Padded(buffer, pad) ==
  [data |-> [i \in 1..pad |-> 170] \o buffer.data, len |-> pad + buffer.len]

\* A hash no struct has
UnknownHash == [i \in 1..8 |-> 255]

Call(data, offset) == [data |-> data, offset |-> offset]

Whole(buffer) == View(buffer, 0, buffer.len)

\* new Uint8Array(buffer), offset undefined
Plain(buffer) == Call(Whole(buffer), 0)

Inputs(buffer) ==
  LET word == SubSeq(buffer.data, 5, 8) IN
  {Plain(buffer)}
  \cup {Plain(WithWord(buffer, WithTopBits(word, top))) : top \in 0..31}
  \cup {Plain(WithWord(buffer, IntLE(buffer.len + d, 4))) :
          d \in IF buffer.len < Giant THEN {-1, 1} ELSE {}}
  \cup {Call(View(buffer, 0, n), 0) : n \in {0, 23, 24, buffer.len - 1}}
  \cup {Plain(WithFirstByte(buffer, 85))}
  \cup {Plain(WithHash(buffer, h)) : h \in {UnknownHash, METADATA_DEFINITION.hashValue}}
  \cup {Plain(WithNestedHash(buffer, h)) :
          h \in IF HasNestedPreamble(buffer)
                  THEN {UnknownHash, METADATA_DEFINITION.hashValue}
                  ELSE {}}
  \cup UNION {{Call(View(Padded(buffer, pad), pad, buffer.len), offset) :
                 offset \in {0, -1, buffer.len - 1, buffer.len, buffer.len + 1,
                             pad + buffer.len}}
              \cup {Call(Whole(Padded(buffer, pad)), pad)} : pad \in 1..MaxPad}

\* ------------------------------------------------------ the state machine
\* The library keeps no state of its own: a behaviour is one message and the
\* calls made on it, msg the CbufMessageData, sz what serializedMessageSize
\* returned for it, out what serializeMessage returned, input the view and
\* offset handed to deserializeMessage and res what that call returned. For
\* the schema functions, ast is the list of entities of the text handed to
\* parse and parsed what parse returned; doc is the text and the import map
\* handed to preprocess and pre what preprocess returned. again is what
\* preprocess returned for the text pre holds; twin is the way a second text
\* handed to parse differs from ast, parsedTwin what parse returned for it;
\* hashed is a call of
\* computeHashValue on the result of parse and what it returned.

VARIABLES msg, sz, out, input, res, ast, parsed, doc, pre, again, twin, parsedTwin, hashed

vars == <<msg, sz, out, input, res, ast, parsed, doc, pre, again, twin, parsedTwin, hashed>>

NoTwin == "none"

NoHash == [called |-> FALSE, namespaces |-> <<>>, typeName |-> <<>>] @@ HashFail("")

NoMessage == [typeName |-> <<>>, timestamp |-> 0, message |-> Undef]

NoParse == [called |-> FALSE] @@ ParseFail("")

NoDocument == [text |-> <<>>, imports |-> <<>>]

NoPreprocess == [called |-> FALSE] @@ Preprocessing("", <<>>, {}, <<>>)

NoSize == [called |-> FALSE, err |-> "", size |-> 0]

NoOutput == [called |-> FALSE] @@ SerializeFail("")

NoInput == Plain([data |-> <<>>, len |-> 0])

NoResult == [called |-> FALSE] @@ NoRecord

Init ==
  /\ msg \in Messages
  /\ sz = NoSize
  /\ out = NoOutput
  /\ input = NoInput
  /\ res = NoResult
  /\ ast = <<>>
  /\ parsed = NoParse
  /\ doc = NoDocument
  /\ pre = NoPreprocess
  /\ again = NoPreprocess
  /\ twin = NoTwin
  /\ parsedTwin = NoParse
  /\ hashed = NoHash

\* serializedMessageSize(nameToSchema, msg)
SerializedMessageSize ==
  /\ ~sz.called
  /\ sz' = [called |-> TRUE] @@ serializedMessageSize(nameToSchema, msg)
  /\ UNCHANGED <<msg, out, input, res, ast, parsed, doc, pre, again, twin, parsedTwin, hashed>>

\* A serializeMessage that empties the message it was given
SerializeMessageInPlace ==
  /\ ~out.called
  /\ out' = [called |-> TRUE] @@ serializeMessage(nameToSchema, msg)
  /\ msg' = [msg EXCEPT !.message = EmptyObject]
  /\ UNCHANGED <<sz, input, res, ast, parsed, doc, pre, again, twin, parsedTwin, hashed>>

\* serializeMessage(nameToSchema, msg)
SerializeMessage ==
  /\ ~out.called
  /\ out' = [called |-> TRUE] @@ serializeMessage(nameToSchema, msg)
  /\ UNCHANGED <<msg, sz, input, res, ast, parsed, doc, pre, again, twin, parsedTwin, hashed>>

\* deserializeMessage(nameToSchema, hashToSchema, data, offset) on the bytes
\* serializeMessage returned, as they are or edited
DeserializeMessage ==
  /\ out.called /\ out.err = ""
  /\ ~res.called
  /\ \E call \in Inputs(out.buffer) :
       /\ input' = call
       /\ res' = [called |-> TRUE]
                   @@ deserializeMessage(nameToSchema, hashToSchema, call.data, call.offset)
  /\ UNCHANGED <<msg, sz, out, ast, parsed, doc, pre, again, twin, parsedTwin, hashed>>

Next == SerializedMessageSize \/ SerializeMessage \/ DeserializeMessage

Spec == Init /\ [][Next]_vars

\* The same calls made on messages of the built-in cbufmsg::metadata with
\* schema maps that hold nothing: new Map() for both.

\* createSchemaMaps([]): a name map and a hash map without entries
NoSchemas == <<>>

\* The field maps drawn for cbufmsg::metadata
MetadataPayloads ==
  {Obj(h @@ n @@ m) : h \in Optional("msg_hash", {Big(0), Big(5)}),
                      n \in Optional("msg_name", {Str(<<>>), Str(<<65>>), Str(Hello)}),
                      m \in Optional("msg_meta", {Str(<<>>), Str(<<65>>), Str(Hello)})}

MetadataMessages ==
  {[typeName |-> METADATA_DEFINITION.name, timestamp |-> Timestamp, message |-> payload] :
     payload \in MetadataPayloads}

MetadataInit ==
  /\ msg \in MetadataMessages
  /\ sz = NoSize
  /\ out = NoOutput
  /\ input = NoInput
  /\ res = NoResult
  /\ ast = <<>>
  /\ parsed = NoParse
  /\ doc = NoDocument
  /\ pre = NoPreprocess
  /\ again = NoPreprocess
  /\ twin = NoTwin
  /\ parsedTwin = NoParse
  /\ hashed = NoHash

\* serializedMessageSize(new Map(), msg)
MetadataSize ==
  /\ ~sz.called
  /\ sz' = [called |-> TRUE] @@ serializedMessageSize(NameMap(NoSchemas), msg)
  /\ UNCHANGED <<msg, out, input, res, ast, parsed, doc, pre, again, twin, parsedTwin, hashed>>

\* serializeMessage(new Map(), msg)
MetadataSerialize ==
  /\ ~out.called
  /\ out' = [called |-> TRUE] @@ serializeMessage(NameMap(NoSchemas), msg)
  /\ UNCHANGED <<msg, sz, input, res, ast, parsed, doc, pre, again, twin, parsedTwin, hashed>>

\* deserializeMessage(new Map(), new Map(), data, offset)
MetadataDeserialize ==
  /\ out.called /\ out.err = ""
  /\ ~res.called
  /\ \E call \in Inputs(out.buffer) :
       /\ input' = call
       /\ res' = [called |-> TRUE]
                   @@ deserializeMessage(NameMap(NoSchemas), HashMap(NoSchemas),
                                         call.data, call.offset)
  /\ UNCHANGED <<msg, sz, out, ast, parsed, doc, pre, again, twin, parsedTwin, hashed>>

MetadataNext == MetadataSize \/ MetadataSerialize \/ MetadataDeserialize

MetadataSpec == MetadataInit /\ [][MetadataNext]_vars

\* parse on the entities of schema texts. The texts are sequences of at
\* most MaxEntities of the entities below.

MaxEntities == 2

\* struct a { bool b; }
StructA == StructEntity("a", FALSE, <<WrittenField(<<"bool">>, "b")>>)

\* enum E { A, B = 10, C }
EnumE == Enum("E", FALSE, <<EnumValue("A", Undef), EnumValue("B", Num(10)), EnumValue("C", Undef)>>)

\* struct T { E f = B; short_string s; string w[]; double d[2]; }
StructT ==
  StructEntity("T", FALSE,
               <<Default(WrittenField(<<"E">>, "f"), Identifier("B")),
                 WrittenField(<<"short_string">>, "s"),
                 Array(WrittenField(<<"string">>, "w")),
                 FixedArray(WrittenField(<<"double">>, "d"), 2)>>)

\* namespace n { struct X { a y; } }
NamespaceX == Namespace("n", <<StructEntity("X", FALSE, <<WrittenField(<<"a">>, "y")>>)>>)

\* namespace n { struct a { u8 b; } }
NamespaceA == Namespace("n", <<StructEntity("a", FALSE, <<WrittenField(<<"u8">>, "b")>>)>>)

\* namespace n { struct Y { E g; } }
NamespaceY == Namespace("n", <<StructEntity("Y", FALSE, <<WrittenField(<<"E">>, "g")>>)>>)

\* const int a = 1;
ConstA == Constant(<<"int">>, "a", Num(1))

\* struct U { E f = Q; }
StructU == StructEntity("U", FALSE, <<Default(WrittenField(<<"E">>, "f"), Identifier("Q"))>>)

\* struct V { n::a p; }
StructV == StructEntity("V", FALSE, <<WrittenField(<<"n", "a">>, "p")>>)

\* enum a { K }
EnumA == Enum("a", FALSE, <<EnumValue("K", Undef)>>)

\* struct W { a c; a m[2]; }
StructW ==
  StructEntity("W", FALSE,
               <<WrittenField(<<"a">>, "c"), FixedArray(WrittenField(<<"a">>, "m"), 2)>>)

\* struct G { E g; }
StructG == StructEntity("G", FALSE, <<WrittenField(<<"E">>, "g")>>)

\* namespace n { enum E { K } struct Z { E e; } }
NamespaceZ ==
  Namespace("n", <<Enum("E", FALSE, <<EnumValue("K", Undef)>>),
                   StructEntity("Z", FALSE, <<WrittenField(<<"E">>, "e")>>)>>)

\* namespace n { struct X { u8 b; } enum X { K } }
NamespaceXX ==
  Namespace("n", <<StructEntity("X", FALSE, <<WrittenField(<<"u8">>, "b")>>),
                   Enum("X", FALSE, <<EnumValue("K", Undef)>>)>>)

Entities ==
  {StructA, EnumE, StructT, NamespaceX, NamespaceA, NamespaceY, ConstA, StructU,
   StructV, EnumA, StructW, StructG, NamespaceZ, NamespaceXX}

SchemaTexts == UNION {[1..n -> Entities] : n \in 0..MaxEntities}

ParseInit ==
  /\ msg = NoMessage
  /\ sz = NoSize
  /\ out = NoOutput
  /\ input = NoInput
  /\ res = NoResult
  /\ ast \in SchemaTexts
  /\ parsed = NoParse
  /\ doc = NoDocument
  /\ pre = NoPreprocess
  /\ again = NoPreprocess
  /\ twin = NoTwin
  /\ parsedTwin = NoParse
  /\ hashed = NoHash

\* parse(messageDefinition)
Parse ==
  /\ ~parsed.called
  /\ parsed' = [called |-> TRUE] @@ parse(ast)
  /\ UNCHANGED <<msg, sz, out, input, res, ast, doc, pre, again, twin, parsedTwin, hashed>>

ParseNext == Parse

ParseSpec == ParseInit /\ [][ParseNext]_vars

\* parse on a text and on a twin of it that differs in an annotation, and
\* computeHashValue called on the map parse builds from the definitions.

\* The longest text drawn for these calls
MaxHashed == 2

\* struct B { uint32 b[]; }
StructB == StructEntity("B", FALSE, <<Array(WrittenField(<<"uint32">>, "b"))>>)

\* struct s { s x; }
StructS == StructEntity("s", FALSE, <<WrittenField(<<"s">>, "x")>>)

\* struct p { q x; }
StructP == StructEntity("p", FALSE, <<WrittenField(<<"q">>, "x")>>)

\* struct q { p x; }
StructQ == StructEntity("q", FALSE, <<WrittenField(<<"p">>, "x")>>)

HashEntities ==
  {StructA, StructB, NamespaceA, NamespaceX, StructW, StructS, StructP, StructQ}

HashTexts == UNION {[1..n -> HashEntities] : n \in 1..MaxHashed}

\* The text with Change made to every field of every struct in it, at the
\* top and in a namespace
OfFields(Change(_), definitions) == [i \in DOMAIN definitions |-> Change(definitions[i])]

OfStruct(Change(_), entity) ==
  IF entity.entity = "struct"
    THEN [entity EXCEPT !.definitions = OfFields(Change, @)]
    ELSE entity

OfEntity(Change(_), entity) ==
  IF entity.entity = "namespace"
    THEN [entity EXCEPT !.definitions = [i \in DOMAIN @ |-> OfStruct(Change, @[i])]]
    ELSE OfStruct(Change, entity)

\* Array of cbuf.ne, "[" NumericExpression "]" "@compact" with 16 for the
\* number: the field f[] written f[16] @compact
Compact(field) ==
  IF field.isArray /\ field.arrayLength = -1
    THEN [field EXCEPT !.arrayUpperBound = 16]
    ELSE field

\* Assignment of cbuf.ne: the field of a basic type written with a default
\* value of its type
Assigned(field) ==
  IF field.isComplex \/ field.isArray \/ field.defaultValue.t # "undefined" THEN field
  ELSE IF field.type = <<"bool">> THEN Default(field, Bool(TRUE))
  ELSE IF field.type \in {<<"string">>, <<"short_string">>} THEN Default(field, Str(<<65>>))
  ELSE Default(field, Num(1))

\* Struct of cbuf.ne with "@naked": every struct of the entity written naked
Naked(entity) ==
  IF entity.entity = "struct" THEN [entity EXCEPT !.isNakedStruct = TRUE]
  ELSE IF entity.entity = "namespace"
    THEN [entity EXCEPT !.definitions =
            [i \in DOMAIN @ |-> IF @[i].entity = "struct"
                                  THEN [@[i] EXCEPT !.isNakedStruct = TRUE]
                                  ELSE @[i]]]
  ELSE entity

CompactText(entities) == [i \in DOMAIN entities |-> OfEntity(Compact, entities[i])]

AssignedText(entities) == [i \in DOMAIN entities |-> OfEntity(Assigned, entities[i])]

NakedText(entities) == [i \in DOMAIN entities |-> Naked(entities[i])]

\* The twin of a text: the text with every unbounded array compact, every
\* basic field assigned or every struct naked
Twins == {"compact", "assigned", "naked"}

TwinText(entities, change) ==
  IF change = "compact" THEN CompactText(entities)
  ELSE IF change = "assigned" THEN AssignedText(entities)
  ELSE NakedText(entities)

\* The results of parseEntities, none when it throws
ResultsOf(st) == IF st.err # "" THEN <<>> ELSE st.results

Definitions(entities) ==
  ResultsOf(parseEntities(entities, 1, <<>>, ParseState("", {}, {}, <<>>, <<>>)))

\* The map parse builds from the results of parseEntities (parse.ts 163-170),
\* empty when parseEntities throws
DefinitionMap(entities) == NameMap(Definitions(entities))

\* The ways of naming the structs of a map: the name of each with no
\* namespaces and with its own, and its last identifier with its namespaces
Namings(map) ==
  UNION {{[namespaces |-> <<>>, typeName |-> key],
          [namespaces |-> map[key].namespaces, typeName |-> key],
          [namespaces |-> map[key].namespaces, typeName |-> <<key[Len(key)]>>]} :
           key \in {k \in DOMAIN map : ~map[k].isEnum}}

HashInit ==
  /\ msg = NoMessage
  /\ sz = NoSize
  /\ out = NoOutput
  /\ input = NoInput
  /\ res = NoResult
  /\ ast \in HashTexts
  /\ parsed = NoParse
  /\ doc = NoDocument
  /\ pre = NoPreprocess
  /\ again = NoPreprocess
  /\ twin \in {NoTwin} \cup Twins
  /\ parsedTwin = NoParse
  /\ hashed = NoHash

\* parse(messageDefinition) on the twin
ParseTwin ==
  /\ twin \in Twins
  /\ ~parsedTwin.called
  /\ parsedTwin' = [called |-> TRUE] @@ parse(TwinText(ast, twin))
  /\ UNCHANGED <<msg, sz, out, input, res, ast, parsed, doc, pre, again, twin, hashed>>

\* computeHashValue(nameToSchema, namespaces, typeName) on the map of the
\* definitions of the text
ComputeHashValue ==
  /\ ~hashed.called
  /\ \E naming \in Namings(DefinitionMap(ast)) :
       hashed' = [called |-> TRUE, namespaces |-> naming.namespaces,
                  typeName |-> naming.typeName]
                 @@ computeHashValue(DefinitionMap(ast), naming.namespaces,
                                     naming.typeName, 0)
  /\ UNCHANGED <<msg, sz, out, input, res, ast, parsed, doc, pre, again, twin, parsedTwin>>

HashNext == Parse \/ ParseTwin \/ ComputeHashValue

HashSpec == HashInit /\ [][HashNext]_vars

\* preprocess on texts and import maps for the paths a and b, drawn from the
\* texts below.

\* #import "path"
Import(path) == <<"#import", " ", "\"">> \o path \o <<"\"">>

Texts ==
  { <<"x">>,
    Import(<<"a">>),
    Import(<<"a">>) \o <<"\n">> \o Import(<<"a">>),
    Import(<<"a">>) \o <<"\n">> \o Import(<<"b">>),
    Import(<<"b">>) \o <<"x">>,
    <<"$", "&">>,
    <<"x", "/", "/">> \o Import(<<"a">>),
    <<"/", "*", "x", "*", "/">> \o Import(<<"b">>),
    Import(<<"c">>),
    <<>>,
    Import(<<"a">>) \o <<" ">> \o Import(<<"b">>) }

ImportMaps == {a @@ b : a \in Optional(<<"a">>, Texts), b \in Optional(<<"b">>, Texts)}

\* Every text of comment characters, line ends and a letter
MaxText == 5

CommentTexts == UNION {[1..n -> {"/", "*", "\n", "x"}] : n \in 0..MaxText}

PreprocessInit ==
  /\ msg = NoMessage
  /\ sz = NoSize
  /\ out = NoOutput
  /\ input = NoInput
  /\ res = NoResult
  /\ ast = <<>>
  /\ parsed = NoParse
  /\ doc \in [text : Texts, imports : ImportMaps] \cup [text : CommentTexts, imports : {<<>>}]
  /\ pre = NoPreprocess
  /\ again = NoPreprocess
  /\ twin = NoTwin
  /\ parsedTwin = NoParse
  /\ hashed = NoHash

\* preprocess(messageDefinition, importedDefinitions)
Preprocess ==
  /\ ~pre.called
  /\ pre' = [called |-> TRUE] @@ preprocess(doc.text, doc.imports)
  /\ UNCHANGED <<msg, sz, out, input, res, ast, parsed, doc, again, twin, parsedTwin, hashed>>

\* preprocess(preprocess(messageDefinition, importedDefinitions),
\* importedDefinitions): the second call
PreprocessAgain ==
  /\ pre.called
  /\ pre.err = ""
  /\ ~again.called
  /\ again' = [called |-> TRUE] @@ preprocess(pre.text, doc.imports)
  /\ UNCHANGED <<msg, sz, out, input, res, ast, parsed, doc, pre, twin, parsedTwin, hashed>>

PreprocessNext == Preprocess \/ PreprocessAgain

PreprocessSpec == PreprocessInit /\ [][PreprocessNext]_vars

\* --------------------------------------------------------- the properties

\* The bytes of an ArrayBuffer
Bytes(buffer) == BufSlice(buffer, 0, buffer.len)

\* Bit k of a little-endian word given as bytes
Bit(b, k) == (b[(k \div 8) + 1] \div Pow2(k % 8)) % 2

\* The n bits of the word from bit lo on, as a number
RECURSIVE BitField(_, _, _)
BitField(b, lo, n) == IF n = 0 THEN 0 ELSE Bit(b, lo) + 2 * BitField(b, lo + 1, n - 1)

\* The definition of the struct a message names
DefinitionOf(message) == nameToSchema[message.typeName]

\* A value of the type of the field, in every nested struct every field present
RECURSIVE WellFormedObject(_, _)
RECURSIVE WellFormedElement(_, _, _)
WellFormedElement(msgdef, field, value) ==
  IF field.isComplex
    THEN LET key == lookupMsgdef(nameToSchema, msgdef.namespaces, field.type)
         IN key # <<>> /\ WellFormedObject(nameToSchema[key], value)
  ELSE IF field.type = <<"bool">> THEN value.t = "boolean"
  ELSE IF field.type = <<"string">> THEN value.t = "string"
  ELSE IF field.type \in {<<"int64">>, <<"uint64">>} THEN value.t = "bigint"
  ELSE value.t = "number"

WellFormedArray(msgdef, field, value) ==
  /\ isArray(value)
  /\ field.arrayLength # -1 => ArrLen(value) = field.arrayLength
  /\ IF ~field.isComplex /\ NumericWidth(field.type) > 0 /\ field.type # <<"bool">>
       THEN value.t = "typed" /\ value.v.ctor = TypedArrayConstructor(field.type)
       ELSE /\ value.t = "array"
            /\ \A i \in 1..Len(value.v) : WellFormedElement(msgdef, field, value.v[i])

WellFormedObject(msgdef, value) ==
  /\ value.t = "object"
  /\ \A i \in DOMAIN msgdef.definitions :
       LET field == msgdef.definitions[i]
           v == Get(value, field.name)
       IN /\ v.t # "undefined"
          /\ IF field.isArray THEN WellFormedArray(msgdef, field, v)
             ELSE WellFormedElement(msgdef, field, v)

WellFormed(message) == WellFormedObject(DefinitionOf(message), message.message)

\* The field map in which every field is set to its declared default or,
\* with none declared, to the zero of its type
RECURSIVE DefaultObject(_)
DefaultElement(msgdef, field) ==
  IF field.isComplex
    THEN DefaultObject(nameToSchema[lookupMsgdef(nameToSchema, msgdef.namespaces,
                                                 field.type)])
  ELSE IF field.type = <<"bool">> THEN Bool(FALSE)
  ELSE IF field.type = <<"string">> THEN Str(<<>>)
  ELSE IF field.type \in {<<"int64">>, <<"uint64">>} THEN Big(0)
  ELSE Num(0)

DefaultValue(msgdef, field) ==
  IF field.defaultValue.t # "undefined" THEN field.defaultValue
  ELSE IF ~field.isArray THEN DefaultElement(msgdef, field)
  ELSE IF field.arrayLength = -1 THEN Arr(<<>>)
  ELSE Repeat(DefaultElement(msgdef, field), field.arrayLength)

DefaultObject(msgdef) ==
  Obj([name \in {msgdef.definitions[i].name : i \in DOMAIN msgdef.definitions} |->
         DefaultValue(msgdef,
                      msgdef.definitions[CHOOSE i \in DOMAIN msgdef.definitions :
                                           msgdef.definitions[i].name = name])])

\* The number of non-naked structs inside the field map value of a struct:
\* its non-naked nested fields and array elements, and theirs
RECURSIVE Nested(_, _, _)
RECURSIVE NestedIn(_, _, _)
NestedIn(nestedMsgdef, elements, j) ==
  IF j > Len(elements) THEN 0
  ELSE (IF nestedMsgdef.isNakedStruct THEN 0 ELSE 1)
       + Nested(nestedMsgdef, elements[j], 1)
       + NestedIn(nestedMsgdef, elements, j + 1)

Nested(msgdef, value, i) ==
  IF i > Len(msgdef.definitions) THEN 0
  ELSE LET field == msgdef.definitions[i]
           v == Get(value, field.name)
       IN (IF field.isComplex
             THEN NestedIn(nameToSchema[lookupMsgdef(nameToSchema, msgdef.namespaces,
                                                     field.type)],
                           IF field.isArray THEN v.v ELSE <<v>>, 1)
             ELSE 0)
          + Nested(msgdef, value, i + 1)

\* The offsets of a buffer at which the four magic bytes stand
MagicOffsets(buffer) ==
  {i \in 0..(Len(buffer.data) - 4) : SubSeq(buffer.data, i + 1, i + 4) = IntLE(CBUF_MAGIC, 4)}

\* C1: for every message of a struct of the schema, serializeMessage writes
\* exactly the number of bytes serializedMessageSize returns for it: it does
\* not throw for want of room and leaves no allocated byte unwritten.
C1_WrittenEqualsSize ==
  (sz.called /\ out.called) =>
    /\ sz.err = ""
    /\ out.err = ""
    /\ out.written = sz.size
    /\ out.buffer.len = sz.size

\* C2: a well-formed message of a non-naked struct is serialized, and
\* deserializing the bytes returns its typeName, timestamp and message, the
\* hash of the struct, the byte length as size and variant 0.
C2_RoundTrip ==
  (out.called /\ WellFormed(msg) /\ ~DefinitionOf(msg).isNakedStruct) =>
    /\ out.err = ""
    /\ (res.called /\ input = Plain(out.buffer)) =>
         /\ res.err = ""
         /\ res.typeName = msg.typeName
         /\ res.timestamp = Num(msg.timestamp)
         /\ res.hashValue = DefinitionOf(msg).hashValue
         /\ res.size = out.buffer.len
         /\ res.variant = 0
         /\ res.message = msg.message

\* C3: serializeMessage of a message with an empty field map succeeds for
\* every struct, and its bytes are those of the message with every field set
\* to its default or zero.
C3_EmptyIsDefaults ==
  (out.called /\ msg.message = EmptyObject) =>
    /\ out.err = ""
    /\ LET explicit == serializeMessage(nameToSchema,
                                        [msg EXCEPT !.message = DefaultObject(DefinitionOf(msg))])
       IN explicit.err = "" /\ Bytes(explicit.buffer) = Bytes(out.buffer)

\* C4: the bytes of a well-formed message hold one preamble for the message
\* and one for every non-naked struct nested in it (fields and array
\* elements), none for a naked one; the first carries the byte count, the
\* hash of the struct and the timestamp of the message, the others 0.0.
C4_PreamblePerStruct ==
  (out.called /\ WellFormed(msg)) =>
    /\ out.err = ""
    /\ Cardinality(MagicOffsets(out.buffer)) = 1 + Nested(DefinitionOf(msg), msg.message, 1)
    /\ BufSlice(out.buffer, 0, 4) = <<84, 78, 68, 86>>
    /\ BufSlice(out.buffer, 4, 4) = IntLE(out.written, 4)
    /\ BufSlice(out.buffer, 8, 8) = DefinitionOf(msg).hashValue
    /\ BufSlice(out.buffer, 16, 8) = F64LE(msg.timestamp)
    /\ \A i \in MagicOffsets(out.buffer) \ {0} :
         /\ BufSlice(out.buffer, i + 16, 8) = ZeroSeq(8)
         /\ \E name \in DOMAIN nameToSchema :
              /\ ~nameToSchema[name].isNakedStruct
              /\ BufSlice(out.buffer, i + 8, 8) = nameToSchema[name].hashValue

\* C5: the size and variant deserializeMessage takes from a sizeAndVariant
\* word: with bit 27 set, size is bits 0..26 and variant bits 27..30;
\* otherwise size is bits 0..30 and variant 0. The word (9 << 27) | 42 gives
\* size 42 and variant 9.
C5_SizeAndVariant ==
  (res.called /\ res.sizeAndVariant # <<>>) =>
    LET w == res.sizeAndVariant IN
    /\ Bit(w, 27) = 1 => res.size = BitField(w, 0, 27) /\ res.variant = BitField(w, 27, 4)
    /\ Bit(w, 27) = 0 => res.size = BitField(w, 0, 31) /\ res.variant = 0
    /\ w = <<42, 0, 0, 72>> => res.size = 42 /\ res.variant = 9

\* The word (9 << 27) | 42 was read from a message of 42 bytes, which was
\* returned with variant 9
C5_Witness ==
  /\ res.called /\ res.err = ""
  /\ res.sizeAndVariant = <<42, 0, 0, 72>>
  /\ res.size = 42 /\ res.variant = 9

\* C6: every sizeAndVariant word serializeMessage writes, at the top and in
\* nested preambles, has bit 27 clear, and deserializeMessage reads the bytes
\* back with variant 0 and the byte length as size, whatever the size.
C6_VariantBitClear ==
  (out.called /\ out.err = "") =>
    /\ \A i \in MagicOffsets(out.buffer) : Bit(BufSlice(out.buffer, i + 4, 4), 27) = 0
    /\ (res.called /\ input = Plain(out.buffer)) =>
         res.err = "" /\ res.variant = 0 /\ res.size = out.buffer.len

\* C7: deserializeMessage returns no record when it fails, and it fails with
\* BufferTooSmall or invalid offset when fewer than 24 bytes of the view
\* follow the offset, else with BadMagic when the first word is not the
\* magic, else with SizeExceedsBuffer when the decoded size is more than the
\* bytes that follow the offset, else with HashNotFound when the hash is
\* neither in hashToSchema nor that of the metadata definition.
C7_PreambleValidated ==
  res.called =>
    LET available == input.data.byteLength - input.offset
        start == input.data.byteOffset + input.offset
        word == BufSlice(input.data.buffer, start + 4, 4)
        decoded == IF Bit(word, 27) = 1 THEN BitField(word, 0, 27) ELSE BitField(word, 0, 31)
        hashValue == BufSlice(input.data.buffer, start + 8, 8)
    IN /\ res.err # "" => res.message.t = "undefined"
       /\ IF input.offset < 0 \/ available < 24
            THEN res.err \in {"BufferTooSmall", "InvalidOffset"}
          ELSE IF BufSlice(input.data.buffer, start, 4) # <<84, 78, 68, 86>>
            THEN res.err = "BadMagic"
          ELSE IF decoded > available THEN res.err = "SizeExceedsBuffer"
          ELSE IF hashValue \notin DOMAIN hashToSchema
                  /\ hashValue # METADATA_DEFINITION.hashValue
            THEN res.err = "HashNotFound"
          ELSE TRUE

\* C8: a record is returned only when the bytes consumed, the preamble and
\* the fields with their nested preambles, are as many as the size decoded;
\* a call that decoded every field of another byte count fails SizeMismatch.
C8_ConsumedEqualsSize ==
  res.called =>
    /\ res.err = "" => res.consumed = res.size /\ res.message.t = "object"
    /\ res.err = "SizeMismatch" => res.consumed # res.size /\ res.message.t = "undefined"
    /\ (res.err = "" /\ input.data.buffer = out.buffer) => res.consumed = out.written

\* A message with a nested preamble was returned: 93 bytes consumed
C8_Witness ==
  /\ res.called /\ res.err = ""
  /\ msg.typeName = <<"ns2", "outer">>
  /\ res.consumed = 93 /\ res.size = 93

\* C9: for a string of any code units in an unbounded string field, the u32
\* written is the number of UTF-8 bytes of the string, the bytes after it
\* are its whole UTF-8 encoding, and serializedMessageSize counts as many.
C9_StringByteLength ==
  (out.called /\ msg.typeName = <<"a">> /\ Get(msg.message, "b").t = "string") =>
    LET bytes == Utf8Encode(Get(msg.message, "b").v) IN
    /\ out.err = ""
    /\ BufSlice(out.buffer, 24, 4) = IntLE(Len(bytes), 4)
    /\ BufSlice(out.buffer, 28, Len(bytes)) = bytes
    /\ out.buffer.len = 24 + 4 + Len(bytes) + 1
    /\ sz.called => sz.err = "" /\ sz.size = 24 + 4 + Len(bytes) + 1

ElementBytes(supplied, i) ==
  IF isArray(supplied) /\ i < ArrLen(supplied) /\ ElemAt(supplied, i).t = "string"
    THEN Utf8Encode(ElemAt(supplied, i).v)
    ELSE <<>>

\* C11: a fixed-length array field [M] is written as exactly M elements and
\* no count, whatever the number of elements supplied (struct d, string
\* n[1]: one length-prefixed string; struct c, s g[2]: two preambles of 16
\* bytes each after the double); serializedMessageSize counts those M
\* elements and deserializeMessage reads M elements. A variable-length array
\* (struct blob) is its u32 element count and that many elements.
C11_FixedArray ==
  /\ msg.typeName = <<"d">> =>
       LET first == ElementBytes(Get(msg.message, "n"), 0) IN
       /\ sz.called => sz.err = "" /\ sz.size = 24 + 4 + Len(first)
       /\ out.called =>
            /\ out.err = ""
            /\ out.written = 24 + 4 + Len(first)
            /\ BufSlice(out.buffer, 24, 4 + Len(first)) = IntLE(Len(first), 4) \o first
       /\ (res.called /\ input = Plain(out.buffer)) =>
            /\ res.err = ""
            /\ ArrLen(Get(res.message, "n")) = 1
  /\ msg.typeName = <<"c">> =>
       /\ sz.called => sz.err = "" /\ sz.size = 24 + 8 + 2 * (24 + 16)
       /\ out.called =>
            /\ out.err = ""
            /\ out.written = 24 + 8 + 2 * (24 + 16)
            /\ MagicOffsets(out.buffer) = {0, 32, 72}
       /\ (res.called /\ input = Plain(out.buffer)) =>
            /\ res.err = ""
            /\ ArrLen(Get(res.message, "g")) = 2
  /\ msg.typeName = <<"blob">> =>
       LET supplied == Get(msg.message, "data") IN
       /\ sz.called => sz.err = "" /\ sz.size = 24 + 4 + ArrLen(supplied)
       /\ out.called =>
            /\ out.err = ""
            /\ out.written = 24 + 4 + ArrLen(supplied)
            /\ BufSlice(out.buffer, 24, 4) = IntLE(ArrLen(supplied), 4)

\* The string of a field of a metadata message, "" when it is left out
TextOf(message, name) ==
  IF Get(message, name).t = "string" THEN Get(message, name).v ELSE <<>>

\* C12: with schema maps that hold no definition, a message of typeName
\* cbufmsg::metadata is sized and serialized as the built-in definition lays
\* it out (preamble with hash 0xBE6738D544AB72C6, uint64 msg_hash, string
\* msg_name, string msg_meta), the result is the one the maps of the parsed
\* schema give, and deserializeMessage decodes the bytes into these three
\* fields under the typeName cbufmsg::metadata.
C12_MetadataBuiltIn ==
  msg.typeName = <<"cbufmsg", "metadata">> =>
    LET hash == Coalesce(Get(msg.message, "msg_hash"), Big(0))
        name == TextOf(msg.message, "msg_name")
        meta == TextOf(msg.message, "msg_meta")
        size == 24 + 8 + (4 + Len(name)) + (4 + Len(meta))
    IN /\ sz.called => sz.err = "" /\ sz.size = size
       /\ out.called =>
            /\ out.err = ""
            /\ out.written = size
            /\ BufSlice(out.buffer, 8, 8) = <<198, 114, 171, 68, 213, 56, 103, 190>>
            /\ BufSlice(out.buffer, 24, 8) = IntLE(hash.v, 8)
            /\ BufSlice(out.buffer, 32, 4 + Len(name)) = IntLE(Len(name), 4) \o name
            /\ BufSlice(out.buffer, 36 + Len(name), 4 + Len(meta))
                 = IntLE(Len(meta), 4) \o meta
            /\ serializeMessage(nameToSchema, msg).buffer = out.buffer
       /\ (res.called /\ input = Plain(out.buffer)) =>
            /\ res.err = ""
            /\ res.typeName = <<"cbufmsg", "metadata">>
            /\ res.hashValue = <<198, 114, 171, 68, 213, 56, 103, 190>>
            /\ res.message = Obj([msg_hash |-> hash, msg_name |-> Str(name),
                                  msg_meta |-> Str(meta)])

\* A metadata message with its three fields set was serialized and decoded
\* with empty maps
C12_Witness ==
  /\ msg.typeName = <<"cbufmsg", "metadata">>
  /\ msg.message = Obj([msg_hash |-> Big(5), msg_name |-> Str(Hello),
                        msg_meta |-> Str(<<65>>)])
  /\ out.called /\ out.err = "" /\ out.written = 24 + 8 + 17 + 5
  /\ res.called /\ res.err = "" /\ input = Plain(out.buffer)
  /\ res.message.t = "object"

\* The text computeHashValue joins for definition i of the result of parse
CanonicalText(schemas, i) ==
  computeHashValue(NameMap(schemas), schemas[i].namespaces, schemas[i].name, 0).text

\* (h * 33 + carry) mod 2^64, h being 8 bytes, from byte i on
RECURSIVE Times33(_, _, _)
Times33(h, i, carry) ==
  IF i > 8 THEN <<>>
  ELSE <<(h[i] * 33 + carry) % 256>> \o Times33(h, i + 1, (h[i] * 33 + carry) \div 256)

\* The rolling hash h(i+1) = (h(i) * 33 + code(c_i)) mod 2^64 over the
\* characters lo..hi of a text, h being the hash before character lo
RECURSIVE Rolling(_, _, _, _)
Rolling(str, lo, hi, h) ==
  IF Len(h) # 8 \/ lo > hi THEN h
  ELSE IF lo = hi THEN Times33(h, 1, str[lo])
  ELSE Rolling(str, ((lo + hi) \div 2) + 1, hi, Rolling(str, lo, (lo + hi) \div 2, h))

\* 3808120302725858088 in decimal digits
HashOfStructA == <<51, 56, 48, 56, 49, 50, 48, 51, 48, 50, 55, 50, 53, 56, 53, 56, 48, 56, 56>>

\* C13: the hash parse stores for a struct is the rolling hash h0 = 5381,
\* h(i+1) = (h(i) * 33 + code(c_i)) mod 2^64 over the characters of its
\* canonical text, and for struct a { bool b; } in the global namespace it is
\* 3808120302725858088.
C13_RollingHash ==
  (parsed.called /\ parsed.err = "") =>
    /\ \A i \in DOMAIN parsed.schemas :
         ~parsed.schemas[i].isEnum =>
           parsed.schemas[i].hashValue
             = Rolling(CanonicalText(parsed.schemas, i), 1,
                       Len(CanonicalText(parsed.schemas, i)), IntLE(5381, 8))
    /\ ast = <<StructA>> => BigIntToString(parsed.schemas[1].hashValue) = HashOfStructA

\* struct a { bool b; } was parsed, and the hash of its 19 characters has
\* wrapped around 2^64
C13_Witness ==
  /\ parsed.called /\ parsed.err = ""
  /\ ast = <<StructA>>
  /\ Len(CanonicalText(parsed.schemas, 1)) = 19
  /\ parsed.schemas[1].hashValue = <<40, 131, 237, 49, 61, 41, 217, 52>>

\* The C spelling of each primitive type
CSpelling ==
  [uint8 |-> <<117, 105, 110, 116, 56, 95, 116>>,
   uint16 |-> <<117, 105, 110, 116, 49, 54, 95, 116>>,
   uint32 |-> <<117, 105, 110, 116, 51, 50, 95, 116>>,
   uint64 |-> <<117, 105, 110, 116, 54, 52, 95, 116>>,
   int8 |-> <<105, 110, 116, 56, 95, 116>>,
   int16 |-> <<105, 110, 116, 49, 54, 95, 116>>,
   int32 |-> <<105, 110, 116, 51, 50, 95, 116>>,
   int64 |-> <<105, 110, 116, 54, 52, 95, 116>>,
   float32 |-> <<102, 108, 111, 97, 116>>,
   float64 |-> <<100, 111, 117, 98, 108, 101>>,
   string |-> <<115, 116, 100, 58, 58, 115, 116, 114, 105, 110, 103>>,
   bool |-> <<98, 111, 111, 108>>,
   short_string |-> <<86, 83, 116, 114, 105, 110, 103, 60, 49, 53, 62>>]

\* The C spelling of the element of a primitive field, VString<15> for a
\* short_string field
ElementSpelling(field) ==
  IF field.upperBound = 16 THEN CSpelling["short_string"] ELSE CSpelling[field.type[1]]

\* The canonical text of the definition under key of a name map: "struct S \n"
\* and, for each field in its order, "[L] " when it is an array, and then
\* "<element> <name>; \n" for a primitive field, and for a complex one
\* "<element> <name>;" and ending, <element> being the decimal string of the
\* hash of the canonical text of the definition its type names
RECURSIVE ExpectedText(_, _, _)
ExpectedField(map, msgdef, field, ending) ==
  (IF field.isArray
     THEN <<91>> \o NumberToString(IF field.arrayLength = -1 THEN 0 ELSE field.arrayLength)
          \o <<93, 32>>
     ELSE <<>>)
  \o (IF field.isComplex
        THEN BigIntToString(hashString(ExpectedText(map, lookupMsgdef(map, msgdef.namespaces, field.type), ending)))
             \o <<32>> \o Spelling[field.name] \o <<59>> \o ending
        ELSE ElementSpelling(field) \o <<32>> \o Spelling[field.name] \o <<59, 32, 10>>)

RECURSIVE ExpectedFields(_, _, _, _)
ExpectedFields(map, key, i, ending) ==
  IF i > Len(map[key].definitions) THEN <<>>
  ELSE ExpectedField(map, map[key], map[key].definitions[i], ending)
         \o ExpectedFields(map, key, i + 1, ending)

ExpectedText(map, key, ending) ==
  <<115, 116, 114, 117, 99, 116, 32>> \o Joined(key) \o <<32, 10>> \o ExpectedFields(map, key, 1, ending)

\* Every struct of the result of parse has the hash of its canonical text
HashesOfText(ending) ==
  (parsed.called /\ parsed.err = "") =>
    \A i \in DOMAIN parsed.schemas :
      ~parsed.schemas[i].isEnum =>
        parsed.schemas[i].hashValue
          = hashString(ExpectedText(NameMap(parsed.schemas), parsed.schemas[i].name, ending))

NamesStruct(schemas, msgdef, field) ==
  /\ lookupMsgdef(NameMap(schemas), msgdef.namespaces, field.type) # <<>>
  /\ ~NameMap(schemas)[lookupMsgdef(NameMap(schemas), msgdef.namespaces, field.type)].isEnum

\* The type of a field names an enum of the list
NamesEnum(schemas, msgdef, field) ==
  /\ lookupMsgdef(NameMap(schemas), msgdef.namespaces, field.type) # <<>>
  /\ NameMap(schemas)[lookupMsgdef(NameMap(schemas), msgdef.namespaces, field.type)].isEnum

\* C15: in every schema list parse returns, a struct field has isComplex true
\* if and only if its type names a struct of the list, and no field is left
\* with a type that names an enum: such a field is a uint32 without
\* isComplex, in whichever order the enum and the struct are declared.
C15_ComplexIffStruct ==
  (parsed.called /\ parsed.err = "") =>
    \A i \in DOMAIN parsed.schemas :
      ~parsed.schemas[i].isEnum =>
        \A j \in DOMAIN parsed.schemas[i].definitions :
          /\ parsed.schemas[i].definitions[j].isComplex
               <=> NamesStruct(parsed.schemas, parsed.schemas[i],
                               parsed.schemas[i].definitions[j])
          /\ ~NamesEnum(parsed.schemas, parsed.schemas[i], parsed.schemas[i].definitions[j])
          /\ (ast \in {<<EnumE, StructG>>, <<StructG, EnumE>>} =>
                /\ parsed.schemas[i].definitions[j].type = <<"uint32">>
                /\ ~parsed.schemas[i].definitions[j].isComplex)

\* The structs and enums of a list of entities declared in namespaces, as
\* [namespaces, entity], those of its namespace blocks included
Declarations(entities, namespaces) ==
  {[namespaces |-> namespaces, entity |-> entities[i]] :
     i \in {k \in DOMAIN entities : entities[k].entity \in {"struct", "enum"}}}

AllDeclarations(entities) ==
  Declarations(entities, <<>>)
    \cup UNION {Declarations(entities[i].definitions, <<entities[i].name>>) :
                  i \in {k \in DOMAIN entities : entities[k].entity = "namespace"}}

\* The fully qualified names of the structs and enums of a text
DeclaredNames(entities) ==
  {d.namespaces \o <<d.entity.name>> : d \in AllDeclarations(entities)}

\* The rule of name resolution: a qualified name is looked up directly, an
\* unqualified T is tried under the namespaces, the innermost first, down to
\* bare T
Resolves(names, namespaces, type) ==
  IF Len(type) > 1 THEN type \in names
  ELSE \E i \in 0..Len(namespaces) : SubSeq(namespaces, 1, i) \o type \in names

\* Every complex type written in a field of a struct of the text resolves
AllResolve(entities) ==
  \A d \in AllDeclarations(entities) :
    d.entity.entity = "struct" =>
      \A j \in DOMAIN d.entity.definitions :
        d.entity.definitions[j].isComplex =>
          Resolves(DeclaredNames(entities), d.namespaces, d.entity.definitions[j].type)

\* C16: a complex type is resolved by looking a qualified name up directly
\* and an unqualified T as n::T and then as bare T. A text all of whose
\* references resolve so, those made from inside a namespace to a struct or
\* enum of the global namespace included, does not fail with UnknownType,
\* and a text with a reference that resolves nowhere does not parse.
C16_NameResolution ==
  parsed.called =>
    /\ AllResolve(ast) => parsed.err # "UnknownType"
    /\ ~AllResolve(ast) => parsed.err # ""
    /\ ast \in {<<StructA, NamespaceX>>, <<EnumE, NamespaceY>>} => parsed.err = ""

\* The enum of a text as it was written, by its fully qualified name
WrittenEnum(entities, name) ==
  (CHOOSE d \in AllDeclarations(entities) :
     d.entity.entity = "enum" /\ d.namespaces \o <<d.entity.name>> = name).entity

\* The members of an enum of the result have the values written for them,
\* and the others the value of the member before plus 1, from 0
ValuesFollow(written, definitions) ==
  \A j \in DOMAIN definitions :
    definitions[j].value
      = IF written[j].value.t # "undefined" THEN written[j].value
        ELSE IF j = 1 THEN Num(0)
        ELSE Num(definitions[j - 1].value.v + 1)

\* The definition of a name in a schema list
Named(schemas, name) == NameMap(schemas)[name]

\* C17: enum members without a value get the value of the member before
\* plus 1, from 0 (enum E { A, B = 10, C } yields 0, 10, 11); a struct field
\* of enum type with a named default (E f = B) comes out of parse as a
\* uint32 field with that member's value for defaultValue, and a name that
\* is no member of the enum makes parse fail with UnknownEnumValue.
C17_EnumValues ==
  parsed.called =>
    /\ parsed.err = "" =>
         \A i \in DOMAIN parsed.schemas :
           parsed.schemas[i].isEnum =>
             ValuesFollow(WrittenEnum(ast, parsed.schemas[i].name).definitions,
                          parsed.schemas[i].definitions)
    /\ (parsed.err = "" /\ \E k \in DOMAIN ast : ast[k] = EnumE) =>
         [j \in 1..3 |-> Named(parsed.schemas, <<"E">>).definitions[j].value.v] = <<0, 10, 11>>
    /\ ast \in {<<EnumE, StructT>>, <<StructT, EnumE>>} =>
         /\ parsed.err = ""
         /\ Named(parsed.schemas, <<"T">>).definitions[1].type = <<"uint32">>
         /\ ~Named(parsed.schemas, <<"T">>).definitions[1].isComplex
         /\ Named(parsed.schemas, <<"T">>).definitions[1].defaultValue = Num(10)
    /\ ast \in {<<EnumE, StructU>>, <<StructU, EnumE>>} => parsed.err = "UnknownEnumValue"

\* The struct of a text as it was written, by its fully qualified name
WrittenStruct(entities, name) ==
  (CHOOSE d \in AllDeclarations(entities) :
     d.entity.entity = "struct" /\ d.namespaces \o <<d.entity.name>> = name).entity

\* C18: every field written with the type short_string comes out of parse
\* with type "string" and upperBound 16, and no field of a parse result has
\* type "short_string".
C18_ShortString ==
  (parsed.called /\ parsed.err = "") =>
    \A i \in DOMAIN parsed.schemas :
      ~parsed.schemas[i].isEnum =>
        \A j \in DOMAIN parsed.schemas[i].definitions :
          /\ parsed.schemas[i].definitions[j].type # <<"short_string">>
          /\ WrittenStruct(ast, parsed.schemas[i].name).definitions[j].type = <<"short_string">>
               => /\ parsed.schemas[i].definitions[j].type = <<"string">>
                  /\ parsed.schemas[i].definitions[j].upperBound = 16

\* The constants, enums and structs of a text, each with its place in the
\* text and its fully qualified name
PlacedNames(entities) ==
  {[at |-> <<k>>, name |-> <<entities[k].name>>] :
     k \in {i \in DOMAIN entities : entities[i].entity # "namespace"}}
    \cup UNION {{[at |-> <<k, m>>, name |-> <<entities[k].name, entities[k].definitions[m].name>>] :
                   m \in {i \in DOMAIN entities[k].definitions :
                            entities[k].definitions[i].entity # "namespace"}} :
                  k \in {i \in DOMAIN entities : entities[i].entity = "namespace"}}

\* Two entities of the text that are not namespaces have the same fully
\* qualified name
HasDuplicate(entities) ==
  \E x, y \in PlacedNames(entities) : x.at # y.at /\ x.name = y.name

\* A place of the text comes before another
Before(a, b) == a[1] < b[1] \/ (a[1] = b[1] /\ Len(a) = 2 /\ Len(b) = 2 /\ a[2] < b[2])

\* The entities whose name an entity before them has
Repeats(entities) ==
  {y \in PlacedNames(entities) :
     \E x \in PlacedNames(entities) : Before(x.at, y.at) /\ x.name = y.name}

\* The place of the first of them
FirstRepeat(entities) ==
  (CHOOSE y \in Repeats(entities) :
     \A z \in Repeats(entities) : z = y \/ Before(y.at, z.at)).at

\* The text cut before a place
CutBefore(entities, at) ==
  IF Len(at) = 1 THEN SubSeq(entities, 1, at[1] - 1)
  ELSE Append(SubSeq(entities, 1, at[1] - 1),
              [entities[at[1]] EXCEPT !.definitions = SubSeq(@, 1, at[2] - 1)])

\* The error parseEntities throws for the entities before the first one that
\* repeats a name, "" for none
ErrorBefore(entities) ==
  parseEntities(CutBefore(entities, FirstRepeat(entities)), 1, <<>>,
                ParseState("", {}, {}, <<>>, <<>>)).err

C20_ImportsResolved ==
  pre.called =>
    /\ Len(pre.added) <= Cardinality(DOMAIN doc.imports)
    /\ \A i, j \in DOMAIN pre.added : pre.added[i] = pre.added[j] => i = j
    /\ (/\ doc.text = Import(<<"a">>) \o <<"\n">> \o Import(<<"a">>)
        /\ <<"a">> \in DOMAIN doc.imports
        /\ doc.imports[<<"a">>] = <<"x">>) => pre.text = <<"x", "\n">>
    /\ pre.err = "" => ImportStatements(pre.text, 1) = <<>>

\* A text without imports: the word #import is nowhere in it
WithoutImports(text) == \A i \in DOMAIN text : text[i] # "#import"

\* C21: preprocessing is idempotent on text without imports: preprocess of
\* what preprocess returned throws nothing and returns that text again, so
\* both parse alike; the removal of line and block comments leaves and
\* creates no text that the second pass takes for a comment.
C21_Idempotent ==
  (again.called /\ WithoutImports(doc.text)) =>
    /\ again.err = ""
    /\ again.text = pre.text

\* Both kinds of comment removed from a text, and found removed again
C21_Witness ==
  /\ again.called
  /\ doc.text = <<"/", "*", "/", "/", "x">>
  /\ pre.text = <<"/", "*">>
  /\ again.text = pre.text

\* C29: for every 32-bit word, the decoded variant is in 0..15 and
\* (variant << 27) | size is the word without its bit 31: size and variant
\* carry bits 0 to 30 without loss or overlap, bit 31 is ignored, and a
\* variant that is not zero is odd.
C29_WordPartition ==
  (res.called /\ res.sizeAndVariant # <<>>) =>
    LET w == res.sizeAndVariant IN
    /\ res.variant \in 0..15
    /\ res.size >= 0
    /\ res.variant # 0 => res.size < 134217728
    /\ res.variant * 134217728 + res.size
         = w[1] + 256 * w[2] + 65536 * w[3] + 16777216 * (w[4] % 128)
    /\ res.variant # 0 => res.variant % 2 = 1

\* A word with bits 31, 30, 28 and 27 set was decoded: variant 11
C29_Witness ==
  /\ res.called
  /\ res.sizeAndVariant # <<>>
  /\ res.sizeAndVariant[4] \div 8 = 27
  /\ res.variant = 11

\* A word with bit 27 clear and bit 28 set was decoded: no variant, and a
\* size that holds bit 28
C29_WitnessNoVariant ==
  /\ res.called
  /\ res.sizeAndVariant # <<>>
  /\ res.sizeAndVariant[4] \div 8 = 2
  /\ res.variant = 0
  /\ res.size >= 268435456

\* The number of elements of the array a message holds under name, 0 when
\* it is left out
Supplied(message, name) ==
  IF isArray(Get(message, name)) THEN ArrLen(Get(message, name)) ELSE 0

\* C24: for an array of a non-naked struct, serializedMessageSize counts 24
\* header bytes and the naked size for each element (struct e, s p[]: the
\* count and 40 bytes for each element supplied, after the naked elements
\* of q of 4 + 2 bytes each); for a fixed-length array it counts all its
\* elements even when the message leaves the field out or holds fewer
\* (struct c, s g[2]: 8 + 2 * 40 after the preamble).
C24_StructArraySize ==
  sz.called =>
    /\ msg.typeName = <<"e">> =>
         /\ sz.err = ""
         /\ sz.size = 24 + 4 + 6 * Supplied(msg.message, "q")
                         + 4 + (24 + 16) * Supplied(msg.message, "p")
    /\ (msg.typeName = <<"c">> /\ Supplied(msg.message, "g") <= 2) =>
         /\ sz.err = ""
         /\ sz.size = 24 + 8 + 2 * (24 + 16)

\* The hashValue of the preamble at NestedOffset of the message that
\* deserializeMessage was called on
NestedHashOf(call) ==
  BufSlice(call.data.buffer, call.data.byteOffset + call.offset + NestedOffset + 8, 8)

\* C30: a nested non-naked struct field is decoded with the definition
\* its declared type resolves to: when deserializeMessage returns a message
\* of ns2::outer, the preamble of its field b (declared ns1::complex) held
\* the hash of ns1::complex and b holds the fields of ns1::complex; a
\* preamble with the hash of another struct is never decoded as that
\* struct.
C30_DeclaredTypeDecoded ==
  (res.called /\ res.err = "" /\ res.typeName = <<"ns2", "outer">>) =>
    /\ NestedHashOf(input) = nameToSchema[<<"ns1", "complex">>].hashValue
    /\ Get(res.message, "b").t = "object"
    /\ DOMAIN Get(res.message, "b").v = {"inner", "b", "g", "v"}

\* The offset in the ArrayBuffer of the message deserializeMessage was
\* called on
StartOf(call) == call.data.byteOffset + call.offset

\* The u16 elements on the wire from offset at of the ArrayBuffer on
WireU16(call, at, n) ==
  [k \in 1..n |-> LET b == BufSlice(call.data.buffer, at + 2 * (k - 1), 2)
                  IN Num(b[1] + 256 * b[2])]

\* C26: a numeric array field is decoded as a typed array whose elements
\* are the little-endian values on the wire, for every offset; it is a view
\* on the input buffer when its offset in that buffer is a multiple of the
\* element size, and a fresh copy otherwise (struct f: the u16 array w
\* follows the count and the bytes of the bool array x; struct blob: bytes,
\* always a view); bool arrays and strings are no views (structs a, s, d
\* and the array x).
C26_TypedArrayViews ==
  (res.called /\ res.err = "") =>
    /\ res.typeName = <<"f">> =>
         LET at == StartOf(input) + HEADER_SIZE + 4 + Supplied(msg.message, "x") + 4
             n == Supplied(msg.message, "w")
             w == Get(res.message, "w")
         IN /\ w.t = "typed" /\ w.v.ctor = "Uint16Array" /\ w.v.len = n
            /\ \A k \in 1..n : ElemAt(w, k - 1) = WireU16(input, at, n)[k]
            /\ Get(res.message, "x").t = "array"
            /\ res.views = IF at % 2 = 0
                             THEN {[ctor |-> "Uint16Array", byteOffset |-> at, length |-> n]}
                             ELSE {}
    /\ res.typeName = <<"blob">> =>
         res.views = {[ctor |-> "Uint8Array",
                       byteOffset |-> StartOf(input) + HEADER_SIZE + 4,
                       length |-> Supplied(msg.message, "data")]}
    /\ res.typeName \in {<<"a">>, <<"s">>, <<"d">>} => res.views = {}

\* Two u16 elements were decoded from offset 34 of a buffer in which one
\* byte precedes the message: a view on the buffer
C26_Witness ==
  /\ res.called /\ res.err = "" /\ res.typeName = <<"f">>
  /\ StartOf(input) = 1
  /\ Get(res.message, "w") = Typed("Uint16Array", <<258>>, 2)
  /\ res.views = {[ctor |-> "Uint16Array", byteOffset |-> 34, length |-> 2]}

\* Two u16 elements were decoded from offset 33: a copy
C26_WitnessCopy ==
  /\ res.called /\ res.err = "" /\ res.typeName = <<"f">>
  /\ StartOf(input) = 0
  /\ Supplied(msg.message, "x") = 1
  /\ Get(res.message, "w") = Typed("Uint16Array", <<258>>, 2)
  /\ res.views = {}

\* What each call made so far returned is what the call returns when it is
\* the only one made on the message or on the input
OnlyCall ==
  /\ sz.called => sz = [called |-> TRUE] @@ serializedMessageSize(nameToSchema, msg)
  /\ out.called => out = [called |-> TRUE] @@ serializeMessage(nameToSchema, msg)
  /\ res.called =>
       /\ input \in Inputs(out.buffer)
       /\ res = [called |-> TRUE]
                  @@ deserializeMessage(nameToSchema, hashToSchema, input.data, input.offset)

\* A call leaves the message, the input and what earlier calls returned as
\* they are
Untouched ==
  /\ msg' = msg
  /\ sz.called => sz' = sz
  /\ out.called => out' = out
  /\ res.called => res' = res /\ input' = input

Differ(one, other) ==
  \E k \in DOMAIN one.definitions :
     one.definitions[k].arrayUpperBound # other.definitions[k].arrayUpperBound

\* Both parse calls returned
BothParsed ==
  /\ parsed.called /\ parsed.err = ""
  /\ parsedTwin.called /\ parsedTwin.err = ""

\* C22: the hash tells a bounded compact array field (T f[16] @compact)
\* from an unbounded one (T f[]): a struct and its twin that differ in
\* nothing else have different hash values.
C22_CompactDistinguished ==
  (BothParsed /\ twin = "compact") =>
    \A i \in DOMAIN parsed.schemas :
       Differ(parsed.schemas[i], parsedTwin.schemas[i]) =>
         parsed.schemas[i].hashValue # parsedTwin.schemas[i].hashValue

\* C27: the hash of a struct depends on its name and, for each field in
\* order, on its array-ness and fixed length, its element type or nested
\* hash and its name, and on nothing else: a text and its twin that differ
\* only in @naked, or only in default values, give the same structs with
\* the same hash values.
C27_HashIgnoresAnnotations ==
  (BothParsed /\ twin \in {"naked", "assigned"}) =>
    /\ Len(parsed.schemas) = Len(parsedTwin.schemas)
    /\ \A i \in DOMAIN parsed.schemas :
         /\ parsed.schemas[i].name = parsedTwin.schemas[i].name
         /\ parsed.schemas[i].hashValue = parsedTwin.schemas[i].hashValue

\* struct a { bool b; } and struct a { bool b = true; } were parsed: both
\* have the hash 3808120302725858088
C27_Witness ==
  /\ BothParsed
  /\ twin = "assigned"
  /\ ast = <<StructA>>
  /\ parsedTwin.schemas[1].definitions[1].defaultValue = Bool(TRUE)
  /\ parsed.schemas[1].hashValue = <<40, 131, 237, 49, 61, 41, 217, 52>>
  /\ parsedTwin.schemas[1].hashValue = <<40, 131, 237, 49, 61, 41, 217, 52>>

\* struct a { bool b; } and struct a @naked { bool b; } were parsed
C27_WitnessNaked ==
  /\ BothParsed
  /\ twin = "naked"
  /\ ast = <<StructA>>
  /\ parsedTwin.schemas[1].isNakedStruct
  /\ ~parsed.schemas[1].isNakedStruct

\* The key of the struct a call of computeHashValue names, in the map of
\* the parse result
Resolved == lookupMsgdef(NameMap(parsed.schemas), hashed.namespaces, hashed.typeName)

\* C28: for every struct of a parse result and every naming that resolves
\* to it (its full name with any namespaces, or its short name with its
\* namespaces), computeHashValue returns the hashValue parse stored in it.
C28_HashOnDemand ==
  (parsed.called /\ parsed.err = "" /\ hashed.called /\ Resolved # <<>>) =>
    /\ hashed.err = ""
    /\ hashed.hashValue = NameMap(parsed.schemas)[Resolved].hashValue

\* The structs a struct holds in its fields
Held(map, key) ==
  {lookupMsgdef(map, map[key].namespaces, map[key].definitions[k].type) :
     k \in {j \in DOMAIN map[key].definitions : map[key].definitions[j].isComplex}}
  \ {<<>>}

\* The structs reachable from the structs of keys in at most n steps
RECURSIVE Reachable(_, _, _)
Reachable(map, keys, n) ==
  IF n = 0 THEN keys
  ELSE Reachable(map, keys \cup UNION {Held(map, key) : key \in keys}, n - 1)

\* Some struct reachable from key holds a struct that holds it
InCycle(map, key) ==
  \E k \in Reachable(map, {key}, Cardinality(DOMAIN map)) :
     k \in Reachable(map, Held(map, k), Cardinality(DOMAIN map))

\* The hash loop of parse reaches a struct with a cycle: the hash values of
\* the structs before it in the results are computed
CycleReachedIn(results, map) ==
  \E i \in DOMAIN results :
     /\ ~results[i].isEnum
     /\ InCycle(map, results[i].name)
     /\ \A j \in 1..(i - 1) :
          \/ results[j].isEnum
          \/ computeHashValue(map, results[j].namespaces, results[j].name, 0).err = ""

CycleReached(entities) == CycleReachedIn(Definitions(entities), DefinitionMap(entities))

\* C25: when the structs reachable from a struct form a cycle, the hash
\* computation of parse and a direct call of computeHashValue fail with
\* CyclicSchema.
C25_CyclicSchema ==
  LET map == DefinitionMap(ast) IN
  /\ (parsed.called /\ CycleReached(ast)) => parsed.err = "CyclicSchema"
  /\ hashed.called =>
       LET key == lookupMsgdef(map, hashed.namespaces, hashed.typeName)
       IN (key # <<>> /\ InCycle(map, key)) => hashed.err = "CyclicSchema"

====
